---- MODULE Spec2Model ----
(***************************************************************************)
(* A model of Deal-hunter: the platform adapters (eBay, Amazon, Walmart,   *)
(* Best Buy) with their shared request / price / filter helpers, the       *)
(* SQLite result store and the search cycle of main_shopper.py.            *)
(*                                                                         *)
(* Conventions.  A Python str that the code inspects character by          *)
(* character (a price text, a seller text) is a sequence of one-character  *)
(* strings.  A title is a sequence of words, a URL a sequence of URL       *)
(* parts (origin, path); the empty sequence is the empty string.  A float  *)
(* is an integer number of hundredths (450.00 is 45000).  Python's None is *)
(* None for a float and Absent for a str.                                  *)
(***************************************************************************)
EXTENDS Integers, Sequences, FiniteSets, TLC

\* Python None where a float is expected (prices and ratings are >= 0).
None == -1
\* Python None where a str (or an element) is expected.
Absent == <<"<None>">>

(***************************************************************************)
(* Text helpers: str.strip, str.split, float().                            *)
(***************************************************************************)
Digits == {"0", "1", "2", "3", "4", "5", "6", "7", "8", "9"}

DigitVal(c) ==
  CASE c = "0" -> 0 [] c = "1" -> 1 [] c = "2" -> 2 [] c = "3" -> 3
    [] c = "4" -> 4 [] c = "5" -> 5 [] c = "6" -> 6 [] c = "7" -> 7
    [] c = "8" -> 8 [] c = "9" -> 9

RECURSIVE Num(_)
\* int() of a sequence of digits; the empty sequence counts 0.
Num(s) ==
  IF s = <<>> THEN 0
  ELSE Num(SubSeq(s, 1, Len(s) - 1)) * 10 + DigitVal(s[Len(s)])

RECURSIVE Strip(_)
\* str.strip(): leading and trailing blanks removed.
Strip(s) ==
  IF s = <<>> THEN s
  ELSE IF s[1] = " " THEN Strip(Tail(s))
  ELSE IF s[Len(s)] = " " THEN Strip(SubSeq(s, 1, Len(s) - 1))
  ELSE s

\* Positions where the separator sep starts in s.
Occurrences(s, sep) ==
  {i \in 1..(Len(s) - Len(sep) + 1) : SubSeq(s, i, i + Len(sep) - 1) = sep}

Min(S) == CHOOSE x \in S : \A y \in S : x <= y

\* s.split(sep)[0]: the text before the first sep, all of s when sep is not in s.
SplitFirst(s, sep) ==
  IF Occurrences(s, sep) = {} THEN s
  ELSE SubSeq(s, 1, Min(Occurrences(s, sep)) - 1)

RECURSIVE LastWord(_)
\* s.split()[-1]: the last blank-separated word; <<>> stands for the IndexError
\* of an s without any word.
LastWord(s) ==
  LET t == Strip(s) IN
  IF t = <<>> THEN <<>>
  ELSE IF \E i \in 1..Len(t) : t[i] = " "
       THEN LastWord(Tail(t))
       ELSE t

IsPriceChar(c) == c \in Digits \/ c = "."

\* float(s) of a text of digits and dots, in hundredths; None stands for the
\* ValueError of a text with two dots or with no digit.  The texts of the
\* model carry at most two fractional digits.
ParseFloat(s) ==
  LET dots   == {i \in 1..Len(s) : s[i] = "."}
      ndigit == Cardinality({i \in 1..Len(s) : s[i] \in Digits})
  IN  IF Cardinality(dots) > 1 \/ ndigit = 0 THEN None
      ELSE IF dots = {} THEN Num(s) * 100
      ELSE LET d     == CHOOSE i \in dots : TRUE
               whole == SubSeq(s, 1, d - 1)
               frac  == SubSeq(s, d + 1, Len(s))
               frac2 == SubSeq(frac \o <<"0", "0">>, 1, 2)
           IN  Num(whole) * 100 + Num(frac2)

(***************************************************************************)
(* BasePlatform helpers.                                                   *)
(***************************************************************************)
\* _clean_price: None for a falsy input, else the float of the digits and
\* dots of the stripped text, None when nothing is left or float() fails.
CleanPrice(price_str) ==
  IF price_str = Absent \/ price_str = <<>> THEN None
  ELSE LET cleaned == SelectSeq(Strip(price_str), IsPriceChar)
       IN  IF cleaned # <<>> THEN ParseFloat(cleaned) ELSE None

\* A plausible slip: the comparison written as >=.
ApplyFiltersStrict(result, item) ==
  IF result.price = None \/ result.price >= item.max_price THEN FALSE ELSE TRUE

\* A plausible slip: the base filter applies the rating threshold as well.
ApplyFiltersRated(result, item) ==
  IF result.price = None \/ result.price > item.max_price THEN FALSE
  ELSE IF item.min_seller_rating > 0 /\ result.seller_rating = None THEN FALSE
  ELSE TRUE

\* _apply_filters: the mandatory price filter.  Every caller passes a
\* non-empty dict, so the guard of line 81 never rejects.
ApplyFilters(result, item) ==
  IF result.price = None \/ result.price > item.max_price THEN FALSE ELSE TRUE

(***************************************************************************)
(* Item requests, as input_processor.read_input_file returns them: name is *)
(* whatever the JSON held (a str, or a number: NumberName), max_price and  *)
(* min_seller_rating are floats.                                           *)
(***************************************************************************)
NumberName == "<number 7>"
IsStr(name) == name # NumberName

\* HTTP: what one GET meets.  fail is "none" or "network" (a RequestException
\* of the transport); status is the status code of the response received.
NoPage == [parse |-> "empty", marker |-> FALSE, listings |-> <<>>, scripts |-> <<>>]
NetFailures ==
  {[fail |-> "network", status |-> 200, urlError |-> FALSE, page |-> NoPage]}
  \cup {[fail |-> "none", status |-> st, urlError |-> FALSE, page |-> NoPage] :
          st \in {404, 503}}

\* Response.raise_for_status: HTTPError for a 4xx or 5xx status, nothing else.
RaiseForStatus(status) == status >= 400

\* A plausible slip: session.get is called without timeout=, and a site that
\* never answers holds the call for ever.
SessionGetNoTimeout(conf, net) ==
  IF net.fail # "none" THEN "pending"
  ELSE IF RaiseForStatus(net.status) THEN "request"
  ELSE "response"

\* The ways session.get(..., timeout=self.timeout) ends: it returns, it
\* raises a RequestException (timeouts included), it raises something else.
GetOutcomes == {"response", "request", "other"}

\* session.get with raise_for_status: "response", or the kind of exception
\* raised.  A timeout that is not positive makes requests raise ValueError.
SessionGet(conf, net) ==
  IF conf.timeout <= 0 THEN "other"
  ELSE IF net.fail # "none" THEN "request"
  ELSE IF RaiseForStatus(net.status) THEN "request"
  ELSE "response"

\* _make_request: sleep(delay) outside the try (a negative delay raises
\* ValueError to the caller), then one GET; any failure of it yields None.
\* events is what the call did, in order.
MakeRequest(conf, net) ==
  IF conf.delay < 0
  THEN [raised |-> TRUE, ok |-> FALSE, events |-> <<>>]
  ELSE LET got == SessionGet(conf, net) IN
       [raised |-> FALSE, ok |-> (got = "response"),
        events |-> <<[op |-> "sleep", seconds |-> conf.delay],
                     [op |-> "get", timeout |-> conf.timeout]>>]

\* _parse_html: None for an empty text or when the parser raises.
ParseHtml(page) == page.parse = "ok"

\* search has called self._parse_html(response.text): its extraction began.
ParseCall(response) == [response EXCEPT !.events = Append(@, [op |-> "parse"])]

\* What search hands back to its caller.
\* events are the sleep and the GET of the call's one _make_request and the
\* call of _parse_html;
\* structured is what the structured-data strategy of Walmart and Best Buy
\* had appended when its loop ended, fallback tells that their HTML strategy
\* ran (if not found_json).
Raised ==
  [raised |-> TRUE, results |-> <<>>, events |-> <<>>, structured |-> <<>>,
   fallback |-> FALSE]
Returned(response, results) ==
  [raised |-> FALSE, results |-> results, events |-> response.events,
   structured |-> <<>>, fallback |-> FALSE]

MkResult(platform, item, title, price, seller_rating, link) ==
  [platform |-> platform, item |-> item.name, title |-> title, price |-> price,
   seller_rating |-> seller_rating, link |-> link]

(***************************************************************************)
(* eBay.                                                                   *)
(***************************************************************************)
NA == <<"N/A">>
NewListing == "New Listing"
NotNewListing(w) == w # NewListing

\* A plausible slip: the threshold applied even when it is 0 or negative.
ApplyEbayFiltersAlways(result, item) ==
  IF result.seller_rating = None \/ result.seller_rating < item.min_seller_rating
  THEN FALSE ELSE TRUE

\* _apply_ebay_filters: the seller rating filter.
ApplyEbayFilters(result, item) ==
  LET min_rating == item.min_seller_rating IN
  IF min_rating > 0
  THEN LET current_rating == result.seller_rating IN
       IF current_rating = None \/ current_rating < min_rating THEN FALSE ELSE TRUE
  ELSE TRUE

\* Lines 72-77 of search: the title, "N/A" without a title element, the
\* link's text when the title element is empty, 'New Listing' removed.
EbayTitle(l) ==
  IF l.title = Absent THEN NA
  ELSE LET title_text == IF l.title = <<>> /\ l.linkEl THEN l.linkText ELSE l.title
       IN  SelectSeq(title_text, NotNewListing)

\* Lines 85-97 of search: the number before the first '%' of the seller text.
EbaySellerRating(l) ==
  IF l.seller = Absent THEN None
  ELSE LET seller_text == Strip(l.seller) IN
       IF Occurrences(seller_text, <<"%">>) = {} THEN None
       ELSE LET rating_part == LastWord(SplitFirst(seller_text, <<"%">>))
                cleaned     == SelectSeq(rating_part, IsPriceChar)
            IN  IF rating_part = <<>> THEN None          \* IndexError, caught
                ELSE IF cleaned # <<>> THEN ParseFloat(cleaned) \* ValueError, caught
                ELSE None

EbayPrice(l) ==
  LET price_str == IF l.price = Absent THEN <<>> ELSE Strip(l.price)
  IN  CleanPrice(SplitFirst(price_str, <<" ", "t", "o", " ">>))

EbayLink(l) == IF l.linkEl /\ l.href # Absent THEN l.href ELSE Absent

\* A plausible slip: one passing filter is enough.
EbayListingEither(l, item) ==
  IF l.bad THEN [kind |-> "raise"]
  ELSE LET title == EbayTitle(l)
           price == EbayPrice(l)
           link  == EbayLink(l)
           result == MkResult("eBay", item, title, price, EbaySellerRating(l), link)
       IN  IF title = NA \/ price = None \/ link = Absent THEN [kind |-> "skip"]
           ELSE IF ApplyFilters(result, item) \/ ApplyEbayFilters(result, item)
                THEN [kind |-> "append", result |-> result]
                ELSE [kind |-> "filtered", result |-> result]

\* The body of the for loop of search for one listing: "raise" is an
\* exception inside the try (caught, the loop continues), "skip" the
\* missing-data continue, "filtered" a candidate a filter rejects.
EbayListing(l, item) ==
  IF l.bad THEN [kind |-> "raise"]
  ELSE LET title == EbayTitle(l)
           price == EbayPrice(l)
           link  == EbayLink(l)
           result == MkResult("eBay", item, title, price, EbaySellerRating(l), link)
       IN  IF title = NA \/ price = None \/ link = Absent THEN [kind |-> "skip"]
           ELSE IF ApplyFilters(result, item) /\ ApplyEbayFilters(result, item)
                THEN [kind |-> "append", result |-> result]
                ELSE [kind |-> "filtered", result |-> result]

RECURSIVE EbayLoop(_, _, _)
EbayLoop(list_items, item, results) ==
  IF list_items = <<>> THEN results
  ELSE LET r == EbayListing(Head(list_items), item) IN
       EbayLoop(Tail(list_items), item,
                IF r.kind = "append" THEN Append(results, r.result) ELSE results)

\* A plausible slip: the listing loop without its try, so that a listing
\* that fails to process ends the search with the exception.
EbaySearchNoTry(item, conf, net) ==
  IF ~IsStr(item.name) THEN Raised
  ELSE LET response == MakeRequest(conf, net) IN
       IF response.raised THEN Raised
       ELSE IF ~response.ok THEN Returned(response, <<>>)
       ELSE IF ~ParseHtml(net.page) THEN Returned(ParseCall(response), <<>>)
       ELSE IF \E i \in 1..Len(net.page.listings) : net.page.listings[i].bad THEN Raised
       ELSE Returned(ParseCall(response), EbayLoop(net.page.listings, item, <<>>))

\* EbayPlatform.search.
EbaySearch(item, conf, net) ==
  IF ~IsStr(item.name) THEN Raised                 \* quote_plus: TypeError
  ELSE LET response == MakeRequest(conf, net) IN
       IF response.raised THEN Raised
       ELSE IF ~response.ok THEN Returned(response, <<>>)
       ELSE IF ~ParseHtml(net.page) THEN Returned(ParseCall(response), <<>>)
       ELSE Returned(ParseCall(response), EbayLoop(net.page.listings, item, <<>>))

(***************************************************************************)
(* URLs: a sequence of parts.  str.startswith is read off the first part.  *)
(***************************************************************************)
EbayOrigin    == "https://www.ebay.com"
AmazonOrigin  == "https://www.amazon.com"
WalmartOrigin == "https://www.walmart.com"
BestbuyOrigin == "https://www.bestbuy.com"
HttpParts  == {EbayOrigin, AmazonOrigin, WalmartOrigin, BestbuyOrigin}
SlashParts == {"/", "/p/1", "/p/2", "/p/4", "/p/5"}
StartsWithHttp(href)  == href # <<>> /\ href[1] \in HttpParts
StartsWithSlash(href) == href # <<>> /\ href[1] \in SlashParts

\* The per-listing step of the HTML loops of Amazon, Walmart and Best Buy,
\* after the fields are extracted: the missing-data continue, then the filter.
HtmlCandidate(platform, item, title, price, link) ==
  IF title = NA \/ price = None \/ link = Absent THEN [kind |-> "skip"]
  ELSE LET result == MkResult(platform, item, title, price, None, link) IN
       IF ApplyFilters(result, item)
       THEN [kind |-> "append", result |-> result]
       ELSE [kind |-> "filtered", result |-> result]

\* The per-entry step of the structured-data loops of Walmart and Best Buy:
\* there the continue tests the truth of title and link.
JsonCandidate(platform, item, title, price, link) ==
  IF title = Absent \/ title = <<>> \/ price = None \/ link = Absent \/ link = <<>>
  THEN [kind |-> "skip"]
  ELSE LET result == MkResult(platform, item, title, price, None, link) IN
       IF ApplyFilters(result, item)
       THEN [kind |-> "append", result |-> result]
       ELSE [kind |-> "filtered", result |-> result]

HtmlTitle(l) == IF l.title = Absent THEN NA ELSE l.title

(***************************************************************************)
(* Amazon.                                                                 *)
(***************************************************************************)
AmazonLink(l) ==
  IF l.linkEl /\ l.href # Absent
  THEN IF StartsWithSlash(l.href) THEN <<AmazonOrigin>> \o l.href
       ELSE IF StartsWithHttp(l.href) THEN l.href
       ELSE Absent
  ELSE Absent

AmazonPrice(l) ==
  IF l.whole # Absent /\ l.fraction # Absent
  THEN CleanPrice(Strip(l.whole) \o Strip(l.fraction))
  ELSE IF l.offscreen # Absent THEN CleanPrice(Strip(l.offscreen))
  ELSE None

AmazonListing(l, item) ==
  IF l.bad THEN [kind |-> "raise"]
  ELSE IF l.sponsored THEN [kind |-> "skip"]
  ELSE HtmlCandidate("Amazon", item, HtmlTitle(l), AmazonPrice(l), AmazonLink(l))

RECURSIVE AmazonLoop(_, _, _)
AmazonLoop(list_items, item, results) ==
  IF list_items = <<>> THEN results
  ELSE LET r == AmazonListing(Head(list_items), item) IN
       AmazonLoop(Tail(list_items), item,
                  IF r.kind = "append" THEN Append(results, r.result) ELSE results)

\* A plausible slip: the page is parsed without the test for the marker.
AmazonSearchNoCheck(item, conf, net) ==
  IF ~IsStr(item.name) THEN Raised
  ELSE LET response == MakeRequest(conf, net) IN
       IF response.raised THEN Raised
       ELSE IF ~response.ok THEN Returned(response, <<>>)
       ELSE IF ~ParseHtml(net.page) THEN Returned(ParseCall(response), <<>>)
       ELSE Returned(ParseCall(response), AmazonLoop(net.page.listings, item, <<>>))

\* AmazonPlatform.search.
AmazonSearch(item, conf, net) ==
  IF ~IsStr(item.name) THEN Raised
  ELSE LET response == MakeRequest(conf, net) IN
       IF response.raised THEN Raised
       ELSE IF ~response.ok THEN Returned(response, <<>>)
       ELSE IF net.page.marker THEN Returned(response, <<>>)   \* captcha / robot check
       ELSE IF ~ParseHtml(net.page) THEN Returned(ParseCall(response), <<>>)
       ELSE Returned(ParseCall(response), AmazonLoop(net.page.listings, item, <<>>))

(***************************************************************************)
(* Walmart.                                                                *)
(***************************************************************************)
WalmartHtmlLink(l) ==
  IF l.linkEl /\ l.href # Absent
  THEN IF StartsWithSlash(l.href) THEN <<WalmartOrigin>> \o l.href ELSE l.href
  ELSE Absent

WalmartHtmlListing(l, item) ==
  IF l.bad THEN [kind |-> "raise"]
  ELSE HtmlCandidate("Walmart", item, HtmlTitle(l),
                     IF l.price = Absent THEN None ELSE CleanPrice(Strip(l.price)),
                     WalmartHtmlLink(l))

RECURSIVE WalmartHtmlLoop(_, _, _)
WalmartHtmlLoop(list_items, item, results) ==
  IF list_items = <<>> THEN results
  ELSE LET r == WalmartHtmlListing(Head(list_items), item) IN
       WalmartHtmlLoop(Tail(list_items), item,
                       IF r.kind = "append" THEN Append(results, r.result) ELSE results)

\* One entry of searchContent.preso.items; all of it is inside the inner try.
WalmartJsonEntry(e, item) ==
  IF e.bad THEN [kind |-> "raise"]
  ELSE LET raw   == IF e.offerPrice # Absent /\ e.offerPrice # <<>>
                    THEN e.offerPrice ELSE e.minPrice
           link  == IF e.url # Absent /\ e.url # <<>>
                    THEN <<WalmartOrigin>> \o e.url ELSE Absent
       IN  JsonCandidate("Walmart", item, e.title, CleanPrice(raw), link)

RECURSIVE WalmartJsonLoop(_, _, _)
WalmartJsonLoop(items_data, item, results) ==
  IF items_data = <<>> THEN results
  ELSE LET r == WalmartJsonEntry(Head(items_data), item) IN
       WalmartJsonLoop(Tail(items_data), item,
                       IF r.kind = "append" THEN Append(results, r.result) ELSE results)

RECURSIVE WalmartScripts(_, _, _)
\* The loop over the script tags: [results, found_json].  A block is "other"
\* (no 'searchContent' in it), "invalid" (JSONDecodeError), "malformed" (the
\* navigation or the iteration raises: the outer except) or "items".
WalmartScripts(scripts, item, results) ==
  IF scripts = <<>> THEN [results |-> results, found_json |-> FALSE]
  ELSE LET script == Head(scripts) IN
       IF script.kind = "items" /\ script.entries # <<>>
       THEN [results |-> WalmartJsonLoop(script.entries, item, results),
             found_json |-> TRUE]                      \* found_json = True; break
       ELSE WalmartScripts(Tail(scripts), item, results)

\* WalmartPlatform.search.
WalmartSearch(item, conf, net) ==
  IF ~IsStr(item.name) THEN Raised
  ELSE LET response == MakeRequest(conf, net) IN
       IF response.raised THEN Raised
       ELSE IF ~response.ok THEN Returned(response, <<>>)
       ELSE IF net.urlError \/ net.status # 200 THEN Returned(response, <<>>)
       ELSE IF ~ParseHtml(net.page) THEN Returned(ParseCall(response), <<>>)
       ELSE LET js == WalmartScripts(net.page.scripts, item, <<>>) IN
            IF ~js.found_json
            THEN [Returned(ParseCall(response),
                           WalmartHtmlLoop(net.page.listings, item, js.results))
                    EXCEPT !.structured = js.results, !.fallback = TRUE]
            ELSE [Returned(ParseCall(response), js.results) EXCEPT !.structured = js.results]

(***************************************************************************)
(* Best Buy.                                                               *)
(***************************************************************************)
BestbuyHtmlLink(l) ==
  IF l.linkEl /\ l.href # Absent
  THEN IF ~StartsWithHttp(l.href) THEN <<BestbuyOrigin>> \o l.href ELSE l.href
  ELSE Absent

BestbuyHtmlListing(l, item) ==
  IF l.bad THEN [kind |-> "raise"]
  ELSE HtmlCandidate("BestBuy", item, HtmlTitle(l),
                     IF l.price = Absent THEN None ELSE CleanPrice(Strip(l.price)),
                     BestbuyHtmlLink(l))

RECURSIVE BestbuyHtmlLoop(_, _, _)
BestbuyHtmlLoop(list_items, item, results) ==
  IF list_items = <<>> THEN results
  ELSE LET r == BestbuyHtmlListing(Head(list_items), item) IN
       BestbuyHtmlLoop(Tail(list_items), item,
                       IF r.kind = "append" THEN Append(results, r.result) ELSE results)

\* Lines 85-91 of search: the url of a JSON-LD product made absolute.
BestbuyJsonLink(url) ==
  IF url = Absent \/ url = <<>> THEN url
  ELSE IF StartsWithHttp(url) THEN url
  ELSE IF StartsWithSlash(url) THEN <<BestbuyOrigin>> \o url
  ELSE <<BestbuyOrigin, "/">> \o url

\* The inner try of the JSON-LD loop, for an entry that is a Product.
BestbuyJsonEntry(e, item) ==
  IF e.bad THEN [kind |-> "raise"]
  ELSE JsonCandidate("BestBuy", item, e.title, CleanPrice(e.price),
                     BestbuyJsonLink(e.url))

RECURSIVE BestbuyJsonLoop(_, _, _)
\* The loop over one block's entries: [results, raised].  Lines 74-75 stand
\* before the inner try: an entry that is no dict ("nondict") raises to the
\* except of the script loop, which drops the rest of the block.
BestbuyJsonLoop(items_data, item, results) ==
  IF items_data = <<>> THEN [results |-> results, raised |-> FALSE]
  ELSE LET e == Head(items_data) IN
       IF e.kind = "nondict" THEN [results |-> results, raised |-> TRUE]
       ELSE IF e.kind # "product" THEN BestbuyJsonLoop(Tail(items_data), item, results)
       ELSE LET r == BestbuyJsonEntry(e, item) IN
            BestbuyJsonLoop(Tail(items_data), item,
                            IF r.kind = "append" THEN Append(results, r.result)
                            ELSE results)

RECURSIVE BestbuyScripts(_, _, _, _)
\* The loop over the ld+json script tags: [results, found_json].  A block is
\* "invalid" (JSONDecodeError), "other" (no list, no ItemList), "malformed"
\* (the iteration itself raises) or "items"; there is no break.
BestbuyScripts(scripts, item, results, found_json) ==
  IF scripts = <<>> THEN [results |-> results, found_json |-> found_json]
  ELSE LET script == Head(scripts) IN
       IF script.kind = "items" /\ script.entries # <<>>
       THEN LET b == BestbuyJsonLoop(script.entries, item, results) IN
            BestbuyScripts(Tail(scripts), item, b.results,
                           IF b.raised THEN found_json ELSE TRUE)
       ELSE BestbuyScripts(Tail(scripts), item, results, found_json)

\* BestbuyPlatform.search.
BestbuySearch(item, conf, net) ==
  IF ~IsStr(item.name) THEN Raised
  ELSE LET response == MakeRequest(conf, net) IN
       IF response.raised THEN Raised
       ELSE IF ~response.ok THEN Returned(response, <<>>)
       ELSE IF net.page.marker THEN Returned(response, <<>>)   \* "Access Denied"
       ELSE IF ~ParseHtml(net.page) THEN Returned(ParseCall(response), <<>>)
       ELSE LET js == BestbuyScripts(net.page.scripts, item, <<>>, FALSE) IN
            IF ~js.found_json
            THEN [Returned(ParseCall(response),
                           BestbuyHtmlLoop(net.page.listings, item, js.results))
                    EXCEPT !.structured = js.results, !.fallback = TRUE]
            ELSE [Returned(ParseCall(response), js.results) EXCEPT !.structured = js.results]

\* platform_obj.search(item), by the platform's configured name.
Search(name, item, conf, net) ==
  CASE name = "ebay"    -> EbaySearch(item, conf, net)
    [] name = "amazon"  -> AmazonSearch(item, conf, net)
    [] name = "walmart" -> WalmartSearch(item, conf, net)
    [] name = "bestbuy" -> BestbuySearch(item, conf, net)

(***************************************************************************)
(* database_manager: the listings table is the sequence of its rows in     *)
(* insertion order.                                                        *)
(***************************************************************************)
\* Python None for the platform of a dict that is handed to save_results.
NoPlatform == "<None>"

\* A Python str is true when it is not empty.
Truthy(str) == str # Absent /\ str # <<>>

LinksOf(rows) == {rows[k].link : k \in 1..Len(rows)}

\* A plausible slip: a table without the UNIQUE constraint on link.
InsertAlways(rows, result, now) ==
  IF result.platform = NoPlatform THEN [rows |-> rows, rowcount |-> 0]
  ELSE [rows |-> Append(rows,
                   [id |-> Len(rows) + 1, platform |-> result.platform,
                    search_term |-> result.item, title |-> result.title,
                    price |-> result.price, seller_rating |-> result.seller_rating,
                    link |-> result.link, found_timestamp |-> now]),
        rowcount |-> 1]

\* A plausible slip: INSERT OR REPLACE, which rewrites the row of a stored link.
InsertOrReplace(rows, result, now) ==
  IF result.platform = NoPlatform THEN [rows |-> rows, rowcount |-> 0]
  ELSE LET row == [id |-> Len(rows) + 1, platform |-> result.platform,
                   search_term |-> result.item, title |-> result.title,
                   price |-> result.price, seller_rating |-> result.seller_rating,
                   link |-> result.link, found_timestamp |-> now]
       IN  IF result.link # Absent /\ result.link \in LinksOf(rows)
           THEN [rows |-> [k \in 1..Len(rows) |->
                            IF rows[k].link = result.link
                            THEN [row EXCEPT !.id = rows[k].id] ELSE rows[k]],
                 rowcount |-> 1]
           ELSE [rows |-> Append(rows, row), rowcount |-> 1]

\* INSERT OR IGNORE INTO listings: the row is skipped (rowcount 0) when it
\* breaks a constraint of the table of init_db, platform NOT NULL or link
\* UNIQUE (NULL links never collide); else it is stored with the next id and
\* the time of the insertion.
InsertOrIgnore(rows, result, now) ==
  IF result.platform = NoPlatform THEN [rows |-> rows, rowcount |-> 0]
  ELSE IF result.link # Absent /\ result.link \in LinksOf(rows)
       THEN [rows |-> rows, rowcount |-> 0]
  ELSE [rows |-> Append(rows,
                   [id |-> Len(rows) + 1, platform |-> result.platform,
                    search_term |-> result.item, title |-> result.title,
                    price |-> result.price, seller_rating |-> result.seller_rating,
                    link |-> result.link, found_timestamp |-> now]),
        rowcount |-> 1]

\* A plausible slip: the test written as rowcount >= 0.
CountRowAlwaysInserted(counts, rowcount, result) ==
  [counts EXCEPT !.inserted = @ + 1]

\* A plausible slip: the count of the ignored rows is forgotten.
CountRowNoIgnored(counts, rowcount, result) ==
  IF rowcount > 0 THEN [counts EXCEPT !.inserted = @ + 1] ELSE counts

\* Lines 105-112 of save_results: the two counters after one execute.
CountRow(counts, rowcount, result) ==
  IF rowcount > 0 THEN [counts EXCEPT !.inserted = @ + 1]
  ELSE IF Truthy(result.link) THEN [counts EXCEPT !.ignored = @ + 1]
  ELSE counts                                      \* the warning of line 112

\* A str that json.loads built from a lone "\ud83d" escape: UTF-8 cannot
\* encode it, so execute raises UnicodeEncodeError when it binds the title.
Surrogate == "<lone surrogate>"
SurrogateTitle == <<"GPU", Surrogate>>
Encodable(result) == \A i \in 1..Len(result.title) : result.title[i] # Surrogate

\* What can go wrong in one save: nothing, the connect, the execute of one
\* row (an sqlite3.Error, caught at line 114), the commit.
NoFault == [kind |-> "none", row |-> 0]
SaveFaults(results) ==
  {NoFault, [kind |-> "connect", row |-> 0], [kind |-> "commit", row |-> 0]}
  \cup {[kind |-> "row", row |-> k] : k \in 1..Len(results)}

RECURSIVE SaveLoop(_, _, _, _, _, _)
\* The for loop of save_results from the k-th result on (the execute of a
\* row is worked out once, as ins).
SaveLoop(rows, counts, results, k, now, fault) ==
  IF k > Len(results) THEN [rows |-> rows, counts |-> counts, raised |-> FALSE]
  ELSE IF ~Encodable(results[k])                 \* no sqlite3.Error: not caught
       THEN [rows |-> rows, counts |-> counts, raised |-> TRUE]
  ELSE IF fault.kind = "row" /\ fault.row = k
       THEN SaveLoop(rows, counts, results, k + 1, now, fault)
  ELSE CHOOSE rest \in
         {SaveLoop(ins.rows, CountRow(counts, ins.rowcount, results[k]), results,
                   k + 1, now, fault) :
            ins \in {InsertOrIgnore(rows, results[k], now)}} : TRUE

\* The line "Database save complete" of the log, when it was written.
NoReport == [logged |-> FALSE, inserted |-> 0, ignored |-> 0]

\* save_results: the table and the logged counts after the call, and
\* whether the call raised.  Nothing is written before the commit; when the
\* commit fails, or an exception leaves the loop, close() rolls back.
SaveResults(rows, results, now, fault) ==
  IF results = <<>> THEN [rows |-> rows, report |-> NoReport, raised |-> FALSE]
  ELSE IF fault.kind = "connect"
       THEN [rows |-> rows, report |-> NoReport, raised |-> FALSE]
  ELSE LET loop == SaveLoop(rows, [inserted |-> 0, ignored |-> 0], results, 1, now, fault)
       IN  IF loop.raised THEN [rows |-> rows, report |-> NoReport, raised |-> TRUE]
           ELSE IF fault.kind = "commit"
                THEN [rows |-> rows, report |-> NoReport, raised |-> FALSE]
           ELSE [rows |-> loop.rows,
                 report |-> [logged |-> TRUE, inserted |-> loop.counts.inserted,
                             ignored |-> loop.counts.ignored],
                 raised |-> FALSE]

(***************************************************************************)
(* Bounds and input domains.                                               *)
(***************************************************************************)
\* Listings on an eBay or Amazon page with several listings.
MaxListings == 2
\* Weight of a Walmart or Best Buy page with several listings: its script
\* blocks, their entries and its HTML listings.
MaxPageWeight == 4

SeqsUpTo(S, n) == UNION {[1..k -> S] : k \in 0..n}

\* Price texts: 450.00, 500 (the limit of the items), 550, a range, two dots,
\* no digit.
T450   == <<"$", "4", "5", "0", ".", "0", "0">>
T500   == <<"$", "5", "0", "0">>
T550   == <<"5", "5", "0">>
TRange == <<"4", "8", "0", " ", "t", "o", " ", "6", "0", "0">>
TDots  == <<"1", ".", "2", ".", "3">>
TWords == <<"N", "/", "A">>
\* Seller texts: 97%, 90%, 95.0% (the threshold of the items), no number, no '%'.
S97    == <<"9", "7", "%", " ", "o", "k">>
S90    == <<"x", " ", "9", "0", "%">>
S95    == <<"9", "5", ".", "0", "%">>
SPct   == <<"%">>
SNoPct == <<"n", "e", "w">>

GPU == <<"GPU">>

Items ==
  {[name |-> n, max_price |-> 50000, min_seller_rating |-> r] :
     n \in {"RTX 3080", NumberName}, r \in {0 - 500, 0, 9500}}
StrItems == {it \in Items : IsStr(it.name)}
\* delay_between_requests_seconds and request_timeout_seconds as
\* BasePlatform.__init__ reads them: the defaults, a negative delay, no
\* delay, a zero timeout.
Delays == {0 - 100, 0, 200}
Timeouts == {0, 1000}
DefaultConf == [delay |-> 200, timeout |-> 1000]
Confs == [delay : Delays, timeout : Timeouts]

OkNet(page) == [fail |-> "none", status |-> 200, urlError |-> FALSE, page |-> page]
HtmlPage(listings) ==
  [parse |-> "ok", marker |-> FALSE, listings |-> listings, scripts |-> <<>>]
JsonPage(scripts, listings) ==
  [parse |-> "ok", marker |-> FALSE, listings |-> listings, scripts |-> scripts]

\* 2xx responses that are no listing page: an empty or unparsable body, a
\* block marker in the text, an error URL, a 2xx status other than 200.
OddNets(page) ==
  {[fail |-> "none", status |-> st, urlError |-> u,
    page |-> [page EXCEPT !.parse = ps, !.marker = m,
                          !.listings = IF ps = "ok" THEN @ ELSE <<>>]] :
     st \in {200, 202, 304}, u \in BOOLEAN, ps \in {"ok", "empty", "error"}, m \in BOOLEAN}

\* HTML listings, field by field.
HtmlLinks(origin) ==
  {[linkEl |-> FALSE, href |-> Absent]}
  \cup {[linkEl |-> TRUE, href |-> h] :
          h \in {Absent, <<>>, <<origin, "/p/1">>, <<"/p/2">>, <<"p/3">>}}

EbayListingsAll ==
  {[bad |-> FALSE, title |-> t, linkEl |-> k.linkEl, href |-> k.href, linkText |-> lt,
    price |-> p, seller |-> sl] :
     t \in {Absent, <<>>, GPU, <<NewListing, "GPU">>},
     k \in HtmlLinks(EbayOrigin), lt \in {<<>>, GPU},
     p \in {Absent, T450, T500, T550, TRange, TDots},
     sl \in {Absent, S97, S90, S95, SPct, SNoPct}}

EL(title, href, price, seller, bad) ==
  [bad |-> bad, title |-> title, linkEl |-> TRUE, href |-> href, linkText |-> <<>>,
   price |-> price, seller |-> seller]
EbayCore ==
  {EL(GPU, <<EbayOrigin, "/p/1">>, T450, S97, FALSE),
   EL(GPU, <<EbayOrigin, "/p/2">>, T500, S95, FALSE),
   EL(GPU, <<EbayOrigin, "/p/2">>, T550, S97, FALSE),
   EL(GPU, <<EbayOrigin, "/p/3">>, TRange, S90, FALSE),
   EL(Absent, <<EbayOrigin, "/p/1">>, T450, S97, FALSE),
   EL(GPU, <<EbayOrigin, "/p/1">>, T450, S97, TRUE)}

AmazonListingsAll ==
  {[bad |-> FALSE, sponsored |-> sp, title |-> t, linkEl |-> k.linkEl, href |-> k.href,
    whole |-> w, fraction |-> f, offscreen |-> o] :
     sp \in BOOLEAN, t \in {Absent, <<>>, GPU}, k \in HtmlLinks(AmazonOrigin),
     w \in {Absent, <<"4", "5", "0", ".">>, <<"5", "5", "0">>},
     f \in {Absent, <<"0", "0">>}, o \in {Absent, T500, TWords}}

AL(title, href, offscreen, sponsored, bad) ==
  [bad |-> bad, sponsored |-> sponsored, title |-> title, linkEl |-> TRUE,
   href |-> href, whole |-> Absent, fraction |-> Absent, offscreen |-> offscreen]
AmazonCore ==
  {AL(GPU, <<"/p/1">>, T450, FALSE, FALSE),
   AL(GPU, <<"/p/2">>, T500, FALSE, FALSE),
   AL(GPU, <<"/p/2">>, T550, FALSE, FALSE),
   AL(GPU, <<"/p/1">>, T450, TRUE, FALSE),
   AL(Absent, <<"/p/1">>, T450, FALSE, FALSE),
   AL(GPU, <<"/p/1">>, T450, FALSE, TRUE)}

\* The HTML listings of Walmart and Best Buy.
PlainListingsAll(origin) ==
  {[bad |-> FALSE, title |-> t, linkEl |-> k.linkEl, href |-> k.href, price |-> p] :
     t \in {Absent, <<>>, GPU}, k \in HtmlLinks(origin),
     p \in {Absent, T450, T500, T550, TDots, TWords}}

PL(title, href, price, bad) ==
  [bad |-> bad, title |-> title, linkEl |-> TRUE, href |-> href, price |-> price]
PlainCore ==
  {PL(GPU, <<"/p/1">>, T450, FALSE),
   PL(Absent, <<"/p/2">>, T450, FALSE),
   PL(GPU, <<"/p/1">>, T450, TRUE)}

\* Structured-data entries.
WalmartEntriesAll ==
  {[bad |-> FALSE, title |-> t, offerPrice |-> o, minPrice |-> m, url |-> u] :
     t \in {<<>>, GPU, SurrogateTitle}, o \in {Absent, <<>>, T450, T550},
     m \in {Absent, T500, TDots},
     u \in {Absent, <<>>, <<"/p/1">>, <<"p/3">>}}

WE(title, url, offerPrice, bad) ==
  [bad |-> bad, title |-> title, offerPrice |-> offerPrice, minPrice |-> Absent,
   url |-> url]
WalmartEntryCore ==
  {WE(GPU, <<"/p/4">>, T450, FALSE),
   WE(<<>>, <<"/p/5">>, T450, FALSE),
   WE(GPU, <<"/p/4">>, T450, TRUE)}

BestbuyEntriesAll ==
  {[kind |-> "product", bad |-> FALSE, title |-> t, price |-> p, url |-> u] :
     t \in {Absent, <<>>, GPU, SurrogateTitle},
     p \in {Absent, <<>>, T450, T500, T550, TDots},
     u \in {Absent, <<>>, <<BestbuyOrigin, "/p/1">>, <<"/p/2">>, <<"p/3">>}}

BE(kind, title, url, price, bad) ==
  [kind |-> kind, bad |-> bad, title |-> title, price |-> price, url |-> url]
BestbuyEntryCore ==
  {BE("product", GPU, <<"/p/4">>, T450, FALSE),
   BE("product", GPU, <<"/p/4">>, T450, TRUE),
   BE("other", GPU, <<"/p/4">>, T450, FALSE),
   BE("nondict", Absent, Absent, Absent, FALSE)}

\* Script blocks of weight w: a block weighs 1 plus its entries.
BlocksOfWeight(E, w) ==
  IF w = 1
  THEN {[kind |-> k, entries |-> <<>>] : k \in {"other", "invalid", "malformed", "items"}}
  ELSE {[kind |-> "items", entries |-> es] : es \in [1..(w - 1) -> E]}

RECURSIVE ScriptSeqs(_, _)
\* The sequences of script blocks of total weight at most n.
ScriptSeqs(E, n) ==
  {<<>>} \cup
  UNION {{<<b>> \o rest : b \in BlocksOfWeight(E, w), rest \in ScriptSeqs(E, n - w)} :
           w \in 1..n}

\* Pages with structured data: every mix of script blocks and HTML listings
\* within the weight.
JsonPages(E, H) ==
  UNION {{JsonPage(sc, ls) : sc \in ScriptSeqs(E, MaxPageWeight - k), ls \in [1..k -> H]} :
           k \in 0..MaxPageWeight}

\* The pages an adapter is run on: every single listing (or entry) field by
\* field, and every short page over the core listings.
Pages(name) ==
  CASE name = "ebay" ->
         {HtmlPage(<<l>>) : l \in EbayListingsAll}
         \cup {HtmlPage(ls) : ls \in SeqsUpTo(EbayCore, MaxListings)}
    [] name = "amazon" ->
         {HtmlPage(<<l>>) : l \in AmazonListingsAll}
         \cup {HtmlPage(ls) : ls \in SeqsUpTo(AmazonCore, MaxListings)}
    [] name = "walmart" ->
         {HtmlPage(<<l>>) : l \in PlainListingsAll(WalmartOrigin)}
         \cup {JsonPage(<<[kind |-> "items", entries |-> <<e>>]>>, <<>>) :
                 e \in WalmartEntriesAll}
         \cup JsonPages(WalmartEntryCore, PlainCore)
    [] name = "bestbuy" ->
         {HtmlPage(<<l>>) : l \in PlainListingsAll(BestbuyOrigin)}
         \cup {JsonPage(<<[kind |-> "items", entries |-> <<e>>]>>, <<>>) :
                 e \in BestbuyEntriesAll}
         \cup JsonPages(BestbuyEntryCore, PlainCore)

PlatformNames == {"ebay", "amazon", "walmart", "bestbuy"}

\* A Best Buy page with one JSON-LD product whose name ends in "\ud83d".
SurrogatePage ==
  JsonPage(<<[kind |-> "items",
              entries |-> <<BE("product", SurrogateTitle, <<"/p/4">>, T450, FALSE)>>]>>,
           <<>>)

\* A page of the platform with one listing that passes every filter.
GoodPage(name) ==
  CASE name = "ebay"    -> HtmlPage(<<EL(GPU, <<EbayOrigin, "/p/1">>, T450, S97, FALSE)>>)
    [] name = "amazon"  -> HtmlPage(<<AL(GPU, <<"/p/1">>, T450, FALSE, FALSE)>>)
    [] name = "walmart" -> HtmlPage(<<PL(GPU, <<"/p/1">>, T450, FALSE)>>)
    [] name = "bestbuy" -> HtmlPage(<<PL(GPU, <<"/p/1">>, T450, FALSE)>>)

\* The inputs of one search call: a working configuration on every page, and
\* the failures (of the network, of the configuration, of the item) on one.
SearchInput(in) ==
  \E n \in PlatformNames :
    \/ \E it \in StrItems, pg \in Pages(n) :
         in = [name |-> n, item |-> it, conf |-> DefaultConf, net |-> OkNet(pg)]
    \/ \E it \in Items, c \in Confs, nt \in NetFailures \cup OddNets(GoodPage(n)) :
         in = [name |-> n, item |-> it, conf |-> c, net |-> nt]

(***************************************************************************)
(* State.                                                                  *)
(***************************************************************************)
VARIABLES
  fIn,     \* the filters alone: the result and the item they are applied to
  fOut,    \* what _apply_filters and _apply_ebay_filters answered
  sIn,     \* one platform call of a cycle: platform, item, delay, network
  sOut,    \* what search did: raised, or returned a sequence
  sAgg,    \* all_results of the cycle after the call
  db,      \* the rows of the listings table
  clock,   \* CURRENT_TIMESTAMP
  saves,   \* the calls of save_results so far: what each was given and did
  stIn,    \* the store alone: the sequence its caller saves
  pc,      \* the program: where main_shopper stands
  cfg,     \* config.ini as config_manager loaded it
  platform_instances,  \* the adapters load_platform_modules returned
  cycle,   \* search cycles finished
  items_to_search,     \* what read_input_file returned to the cycle
  all_results,         \* the aggregate of the cycle
  cyc,     \* the cycle's log: its input, its search calls, its save
  startup, \* what __main__ met before the scheduler: config, init_db, exit code
  arg,     \* one helper called on its own: the call and its arguments
  ret      \* what that call gave back

filterVars == <<fIn, fOut>>
searchVars == <<sIn, sOut, sAgg>>
storeVars  == <<db, clock, saves, stIn>>
progVars ==
  <<pc, cfg, platform_instances, cycle, items_to_search, all_results, cyc, startup>>
unitVars   == <<arg, ret>>
vars ==
  <<fIn, fOut, sIn, sOut, sAgg, db, clock, saves, stIn,
    pc, cfg, platform_instances, cycle, items_to_search, all_results, cyc,
    startup, arg, ret>>

\* A plausible slip: a failing adapter empties what the cycle has gathered.
CallPlatformAbort(aggregate, out) ==
  IF out.raised THEN <<>>
  ELSE IF out.results # <<>> THEN aggregate \o out.results
  ELSE aggregate

\* A plausible slip: the results of a call are put in front of the aggregate.
CallPlatformPrepend(aggregate, out) ==
  IF ~out.raised /\ out.results # <<>> THEN out.results \o aggregate
  ELSE aggregate

\* Lines 100-108 of run_search_cycle: the try around search, and extend.
CallPlatform(aggregate, out) ==
  IF ~out.raised /\ out.results # <<>> THEN aggregate \o out.results
  ELSE aggregate

(***************************************************************************)
(* The filters on their own.                                               *)
(***************************************************************************)
FilterInputs ==
  {[result |-> MkResult("eBay", it, GPU, p, r, <<EbayOrigin, "/p/1">>), item |-> it] :
     it \in Items, p \in {None, 45000, 50000, 55000}, r \in {None, 9000, 9500, 9700}}

FilterIdle ==
  /\ fIn = [result |-> "none", item |-> "none"]
  /\ fOut = [price |-> "idle", rating |-> "idle"]
SearchIdle == sIn = "none" /\ sOut = "none" /\ sAgg = <<>>
StoreIdle  == db = <<>> /\ clock = 0 /\ saves = <<>> /\ stIn = <<>>
ProgIdle ==
  /\ pc = "off" /\ cfg = "none" /\ platform_instances = <<>> /\ cycle = 0
  /\ items_to_search = <<>> /\ all_results = <<>> /\ cyc = "none"
  /\ startup = "none"
NoCall == [op |-> "none"]
NoReturn == [done |-> FALSE]
UnitIdle == arg = NoCall /\ ret = NoReturn

InitFilter ==
  /\ UnitIdle
  /\ fIn \in FilterInputs
  /\ fOut = [price |-> "pending", rating |-> "pending"]
  /\ SearchIdle
  /\ StoreIdle
  /\ ProgIdle

PriceFilter ==
  /\ fOut.price = "pending"
  /\ fOut' = [fOut EXCEPT !.price =
                IF ApplyFilters(fIn.result, fIn.item) THEN "pass" ELSE "reject"]
  /\ UNCHANGED <<unitVars, fIn, searchVars, storeVars, progVars>>

RatingFilter ==
  /\ fOut.rating = "pending"
  /\ fOut' = [fOut EXCEPT !.rating =
                IF ApplyEbayFilters(fIn.result, fIn.item) THEN "pass" ELSE "reject"]
  /\ UNCHANGED <<unitVars, fIn, searchVars, storeVars, progVars>>

NextFilter == PriceFilter \/ RatingFilter

SpecFilter == InitFilter /\ [][NextFilter]_vars

\* C1: the price filter rejects a result whose price is absent or above the
\* item's max_price and passes a result priced exactly at max_price, whatever
\* the result's seller rating is.
C1_PriceFilter ==
  fOut.price \in {"pass", "reject"} =>
    /\ (fIn.result.price = None \/ fIn.result.price > fIn.item.max_price)
         => fOut.price = "reject"
    /\ fIn.result.price = fIn.item.max_price => fOut.price = "pass"

\* A result at exactly max_price, without a seller rating, for an item that
\* asks for one, has passed the price filter.
C1_Witness ==
  /\ fOut.price = "pass"
  /\ fIn.result.price = fIn.item.max_price
  /\ fIn.result.seller_rating = None
  /\ fIn.item.min_seller_rating > 0

\* C2: the eBay rating filter rejects a result whenever min_seller_rating > 0
\* and the result's seller rating is absent or strictly below it; with
\* min_seller_rating = 0 the rating never rejects.
C2_RatingFilter ==
  fOut.rating \in {"pass", "reject"} =>
    /\ (fIn.item.min_seller_rating > 0 /\
          (fIn.result.seller_rating = None
             \/ fIn.result.seller_rating < fIn.item.min_seller_rating))
         => fOut.rating = "reject"
    /\ fIn.item.min_seller_rating = 0 => fOut.rating = "pass"

\* A rated result below a positive threshold has been rejected.
C2_Witness ==
  /\ fOut.rating = "reject"
  /\ fIn.item.min_seller_rating > 0
  /\ fIn.result.seller_rating # None
  /\ fIn.result.seller_rating < fIn.item.min_seller_rating

(***************************************************************************)
(* One platform call.                                                      *)
(***************************************************************************)
Pending ==
  [done |-> FALSE, raised |-> FALSE, results |-> <<>>, events |-> <<>>,
   structured |-> <<>>, fallback |-> FALSE]

InitSearch ==
  /\ UnitIdle
  /\ SearchInput(sIn)
  /\ sOut = Pending
  /\ sAgg = <<>>
  /\ FilterIdle
  /\ StoreIdle
  /\ ProgIdle

RunSearch ==
  /\ ~sOut.done
  /\ LET out == Search(sIn.name, sIn.item, sIn.conf, sIn.net) IN
       /\ sOut' = [done |-> TRUE, raised |-> out.raised, results |-> out.results,
                   events |-> out.events, structured |-> out.structured,
                   fallback |-> out.fallback]
       /\ sAgg' = CallPlatform(sAgg, out)
  /\ UNCHANGED <<unitVars, filterVars, sIn, storeVars, progVars>>

NextSearch == RunSearch

SpecSearch == InitSearch /\ [][NextSearch]_vars

InSeq(x, s) == \E i \in 1..Len(s) : s[i] = x

\* The call was made and its GET brought a response back.
Fetched ==
  /\ sOut.done
  /\ IsStr(sIn.item.name)
  /\ MakeRequest(sIn.conf, sIn.net).ok

\* C3: for the eBay adapter, a listing whose title, price and link were all
\* extracted is in the sequence search returns, and in the cycle's aggregate,
\* exactly when price <= max_price and (min_seller_rating <= 0 or the listing's
\* seller rating is present and >= min_seller_rating).
C3_EbayAccepted ==
  (Fetched /\ sIn.name = "ebay" /\ ParseHtml(sIn.net.page)) =>
    \A i \in 1..Len(sIn.net.page.listings) :
      LET l      == sIn.net.page.listings[i]
          item   == sIn.item
          price  == EbayPrice(l)
          rating == EbaySellerRating(l)
          result == MkResult("eBay", item, EbayTitle(l), price, rating, EbayLink(l))
          accept == /\ price <= item.max_price
                    /\ \/ item.min_seller_rating <= 0
                       \/ rating # None /\ rating >= item.min_seller_rating
      IN  (~l.bad /\ EbayTitle(l) # NA /\ price # None /\ EbayLink(l) # Absent) =>
            /\ InSeq(result, sOut.results) <=> accept
            /\ InSeq(result, sAgg) <=> accept

\* The scenario of the specification: for an item with max_price 500 and
\* min_seller_rating 95, a page with the 450 / 97% listing and the 480 / 90%
\* listing gave back the first alone.
C3_Witness ==
  /\ Fetched /\ sIn.name = "ebay"
  /\ sIn.item.max_price = 50000 /\ sIn.item.min_seller_rating = 9500
  /\ Len(sIn.net.page.listings) = 2
  /\ EbayPrice(sIn.net.page.listings[1]) = 45000
  /\ EbaySellerRating(sIn.net.page.listings[1]) = 9700
  /\ EbayPrice(sIn.net.page.listings[2]) = 48000
  /\ EbaySellerRating(sIn.net.page.listings[2]) = 9000
  /\ Len(sOut.results) = 1 /\ sOut.results[1].price = 45000
  /\ sAgg = sOut.results

\* A page without any listing container: no HTML listing, no entry in any
\* structured-data block.
NoContainers(page) ==
  /\ page.listings = <<>>
  /\ \A j \in 1..Len(page.scripts) : page.scripts[j].entries = <<>>

\* C9: on every fetched page, however malformed, search of every adapter
\* returns a sequence and does not raise; a page with no listing container
\* yields the empty sequence.
C9_SearchNeverRaises ==
  Fetched =>
    /\ ~sOut.raised
    /\ NoContainers(sIn.net.page) => sOut.results = <<>>

\* Best Buy returned from a page with a script block it cannot navigate and an
\* HTML listing that fails to process.
C9_Witness ==
  /\ Fetched /\ sIn.name = "bestbuy" /\ ~sOut.raised
  /\ \E j \in 1..Len(sIn.net.page.scripts) : sIn.net.page.scripts[j].kind = "malformed"
  /\ \E i \in 1..Len(sIn.net.page.listings) : sIn.net.page.listings[i].bad

\* The page was fetched, is not a block page and parses.
Usable ==
  /\ Fetched
  /\ ParseHtml(sIn.net.page)
  /\ sIn.name \in {"amazon", "bestbuy"} => ~sIn.net.page.marker
  /\ sIn.name = "walmart" => ~sIn.net.urlError /\ sIn.net.status = 200

\* The script blocks that hold entries.
ItemBlocks(page) ==
  {j \in 1..Len(page.scripts) :
     page.scripts[j].kind = "items" /\ page.scripts[j].entries # <<>>}

\* C10: in every adapter and strategy a processing error on one listing skips
\* that listing alone: every listing of a processed page or block that is
\* complete and passes the filters is returned, whatever stands before or
\* after it.
C10_OnlyBadListingSkipped ==
  Usable =>
    LET page == sIn.net.page
        item == sIn.item
        Kept(r) == r.kind = "append" => InSeq(r.result, sOut.results)
    IN  CASE sIn.name = "ebay" ->
               \A i \in 1..Len(page.listings) : Kept(EbayListing(page.listings[i], item))
          [] sIn.name = "amazon" ->
               \A i \in 1..Len(page.listings) : Kept(AmazonListing(page.listings[i], item))
          [] sIn.name = "walmart" ->
               IF ItemBlocks(page) # {}
               THEN LET es == page.scripts[Min(ItemBlocks(page))].entries IN
                    \A k \in 1..Len(es) : Kept(WalmartJsonEntry(es[k], item))
               ELSE \A i \in 1..Len(page.listings) :
                      Kept(WalmartHtmlListing(page.listings[i], item))
          [] sIn.name = "bestbuy" ->
               /\ \A j \in ItemBlocks(page) :
                    LET es == page.scripts[j].entries IN
                    \A k \in 1..Len(es) :
                      es[k].kind = "product" => Kept(BestbuyJsonEntry(es[k], item))
               /\ ItemBlocks(page) = {} =>
                    \A i \in 1..Len(page.listings) :
                      Kept(BestbuyHtmlListing(page.listings[i], item))

\* Best Buy met a JSON-LD list whose first entry is no dict and whose second
\* is a complete product within the price: nothing was returned.
C10_Witness ==
  /\ Usable /\ sIn.name = "bestbuy"
  /\ sIn.net.page.listings = <<>>
  /\ Len(sIn.net.page.scripts) = 1
  /\ Len(sIn.net.page.scripts[1].entries) = 2
  /\ sIn.net.page.scripts[1].entries[1].kind = "nondict"
  /\ BestbuyJsonEntry(sIn.net.page.scripts[1].entries[2], sIn.item).kind = "append"
  /\ sIn.net.page.scripts[1].entries[2].kind = "product"
  /\ sOut.results = <<>>

\* C10 for the adapters and strategies whose per-listing code stands wholly
\* inside the try: eBay, Amazon, Walmart and the HTML listings of Best Buy.
C10_InsideTry ==
  (Usable /\ (sIn.name = "bestbuy" => ItemBlocks(sIn.net.page) = {})) =>
    C10_OnlyBadListingSkipped

\* A result with the three required fields: a title that is not empty, a
\* price, a link that is not empty.
Complete(result) ==
  /\ result.title # <<>> /\ result.title # Absent
  /\ result.price # None
  /\ result.link # Absent /\ result.link # <<>>

\* C11: every result an adapter emits, and so every result of the cycle's
\* aggregate, has a non-empty title, a price and a non-empty link; a listing
\* missing one of the three is dropped.
C11_EmittedResultsComplete ==
  sOut.done =>
    /\ \A i \in 1..Len(sOut.results) : Complete(sOut.results[i])
    /\ \A i \in 1..Len(sAgg) : Complete(sAgg[i])

\* eBay returned a result whose title is the empty text.
C11_Witness ==
  /\ Fetched /\ sIn.name = "ebay"
  /\ \E i \in 1..Len(sOut.results) :
       sOut.results[i].title = <<>> /\ sOut.results[i].price # None

\* The site origin of an adapter, and every href or url its page carries.
OriginOf(name) ==
  CASE name = "ebay"    -> EbayOrigin
    [] name = "amazon"  -> AmazonOrigin
    [] name = "walmart" -> WalmartOrigin
    [] name = "bestbuy" -> BestbuyOrigin
PageHrefs(page) ==
  {page.listings[i].href : i \in 1..Len(page.listings)}
  \cup UNION {{page.scripts[j].entries[k].url : k \in 1..Len(page.scripts[j].entries)} :
                j \in 1..Len(page.scripts)}

\* C13: in every adapter the link of an emitted result is an absolute href of
\* the page passed through, or an href of the page that begins with "/"
\* joined to the site origin; a listing with any other href is discarded, so
\* no emitted result carries a relative or guessed link.
C13_LinksResolved ==
  sOut.done =>
    \A i \in 1..Len(sOut.results) :
      \E href \in PageHrefs(sIn.net.page) :
        \/ StartsWithHttp(href) /\ sOut.results[i].link = href
        \/ StartsWithSlash(href)
             /\ sOut.results[i].link = <<OriginOf(sIn.name)>> \o href

\* eBay emitted the relative href "/p/2" as the link of a result.
C13_Witness ==
  /\ Fetched /\ sIn.name = "ebay"
  /\ \E i \in 1..Len(sOut.results) : sOut.results[i].link = <<"/p/2">>

\* C13 for the one adapter that follows the rule.
C13_Amazon == sIn.name = "amazon" => C13_LinksResolved

\* What the call did of the kind, by its events.
Did(op) == {e \in 1..Len(sOut.events) : sOut.events[e].op = op}

\* The adapter met its signature of a blocked request in the response: the
\* words of a CAPTCHA or robot check (Amazon), "Access Denied" (Best Buy),
\* an error URL (Walmart).
Blocked ==
  /\ Fetched
  /\ \/ sIn.name \in {"amazon", "bestbuy"} /\ sIn.net.page.marker
     \/ sIn.name = "walmart" /\ sIn.net.urlError

\* C24: an adapter that finds its block signature in the response returns
\* the empty sequence, attempts no extraction and issues no second request.
C24_BlockedReturnsEmpty ==
  Blocked =>
    /\ ~sOut.raised /\ sOut.results = <<>>
    /\ Did("parse") = {} /\ sOut.structured = <<>> /\ ~sOut.fallback
    /\ Cardinality(Did("get")) = 1

\* Amazon answered 200 with a page that holds a good listing and the words
\* of a robot check: one request, no parsing, nothing returned.
C24_Witness ==
  /\ Blocked /\ sIn.name = "amazon" /\ sIn.net.status = 200
  /\ ParseHtml(sIn.net.page) /\ sIn.net.page.listings = GoodPage("amazon").listings
  /\ sOut.results = <<>>
  /\ sOut.events = <<[op |-> "sleep", seconds |-> sIn.conf.delay],
                     [op |-> "get", timeout |-> sIn.conf.timeout]>>

\* The fetch of the call failed: no answer, or an answer whose status is
\* not 2xx.
FetchFailed ==
  /\ sOut.done /\ IsStr(sIn.item.name)
  /\ \/ sIn.net.fail # "none"
     \/ sIn.net.status < 200 \/ sIn.net.status > 299

\* C25: when the fetch of a search fails, the search returns the empty
\* sequence without attempting extraction (and the cycle goes on with the
\* next adapter and item).
C25_FailedFetchReturnsEmpty ==
  FetchFailed => (~sOut.raised /\ sOut.results = <<>> /\ Did("parse") = {})

\* eBay answered 304 with a page that holds a good listing: the page was
\* parsed and the listing returned.
C25_Witness ==
  /\ FetchFailed /\ sIn.name = "ebay" /\ sIn.net.status = 304
  /\ Did("parse") # {} /\ Len(sOut.results) = 1

\* C25 for the fetches _make_request answers with None.
C25_FetchNone ==
  (sOut.done /\ IsStr(sIn.item.name) /\ ~MakeRequest(sIn.conf, sIn.net).raised
     /\ ~MakeRequest(sIn.conf, sIn.net).ok) =>
    (~sOut.raised /\ sOut.results = <<>> /\ Did("parse") = {})

\* The thresholds an item request may carry.
Ratings == {it.min_seller_rating : it \in Items}

\* C29: what Amazon, Walmart and Best Buy return does not depend on
\* item.min_seller_rating: on the same page two items that differ in the
\* threshold alone get the same Results, each without seller_rating.
C29_RatingIgnored ==
  (sOut.done /\ sIn.name \in {"amazon", "walmart", "bestbuy"}) =>
    /\ \A r \in Ratings :
         LET other == Search(sIn.name, [sIn.item EXCEPT !.min_seller_rating = r],
                             sIn.conf, sIn.net)
         IN  other.raised = sOut.raised /\ other.results = sOut.results
    /\ \A k \in 1..Len(sOut.results) : sOut.results[k].seller_rating = None

\* Amazon was asked for sellers of 95 % and better and returned a listing
\* without rating, the one it returns for an item without threshold.
C29_Witness ==
  /\ sOut.done /\ sIn.name = "amazon" /\ sIn.item.min_seller_rating = 9500
  /\ Len(sOut.results) = 1 /\ sOut.results[1].seller_rating = None
  /\ Search("amazon", [sIn.item EXCEPT !.min_seller_rating = 0], sIn.conf,
            sIn.net).results = sOut.results

\* A processed page of an adapter with two extraction strategies.
TwoStrategies == Usable /\ sIn.name \in {"walmart", "bestbuy"}

\* C21: in Walmart and Best Buy the HTML strategy is attempted if and only
\* if the structured-data strategy yielded no usable record for the call;
\* structured data whose entries are all incomplete or filtered out still
\* leads to the HTML fallback.
C21_FallbackIffNoRecord ==
  TwoStrategies => (sOut.fallback <=> sOut.structured = <<>>)

\* Walmart met a block whose one entry has no title and an HTML listing that
\* passes every test: the fallback did not run and nothing was returned.
C21_Witness ==
  /\ TwoStrategies /\ sIn.name = "walmart"
  /\ sIn.net.page.scripts = <<[kind |-> "items",
                               entries |-> <<WE(<<>>, <<"/p/5">>, T450, FALSE)>>]>>
  /\ sIn.net.page.listings = <<PL(GPU, <<"/p/1">>, T450, FALSE)>>
  /\ ~sOut.fallback /\ sOut.structured = <<>> /\ sOut.results = <<>>

\* What the code does instead: the fallback runs exactly when no block with
\* entries was walked to its end.
C21_FoundJson ==
  TwoStrategies =>
    /\ sOut.structured # <<>> /\ sIn.name = "walmart" => ~sOut.fallback
    /\ ItemBlocks(sIn.net.page) = {} => sOut.fallback

\* C30: the results of one Walmart or Best Buy call come from one strategy:
\* when the structured-data strategy contributed a result, the HTML strategy
\* contributes none, also when a structured-data block raises part-way.
C30_SingleStrategy ==
  TwoStrategies =>
    (sOut.structured # <<>> => sOut.results = sOut.structured)

\* Best Buy appended the product of a block, met an entry that is no dict
\* and went on to the HTML listings: the call returned results of both.
C30_Witness ==
  /\ TwoStrategies /\ sIn.name = "bestbuy"
  /\ Len(sOut.structured) = 1 /\ sOut.fallback
  /\ Len(sOut.results) = 2 /\ sOut.results[1] = sOut.structured[1]

\* C30 for Walmart.
C30_Walmart == sIn.name = "walmart" => C30_SingleStrategy

(***************************************************************************)
(* The store on its own: one caller saves its sequence again and again,    *)
(* and may find other field values behind the same links in between.       *)
(***************************************************************************)
\* Sequences saved per call, calls of save_results.
MaxBatch == 2
MaxSaves == 2

Link1 == <<EbayOrigin, "/p/1">>
Link2 == <<AmazonOrigin, "/p/1">>
RTX == [name |-> "RTX 3080", max_price |-> 50000, min_seller_rating |-> 0]

\* What a caller may hand to save_results: Results, two of them behind one
\* link, and dicts that are not (no link, an empty link, no platform, a
\* title that is no text).
StoreResults ==
  {MkResult("eBay", RTX, GPU, 45000, None, l) : l \in {Link1, Link2, <<>>, Absent}}
  \cup {MkResult("Amazon", RTX, GPU, 40000, None, Link1),
        MkResult(NoPlatform, RTX, GPU, 45000, None, Link1),
        MkResult("Walmart", RTX, SurrogateTitle, 45000, None, Link1)}

InitStore ==
  /\ UnitIdle
  /\ db = <<>>
  /\ clock = 1
  /\ saves = <<>>
  /\ stIn \in SeqsUpTo(StoreResults, MaxBatch)
  /\ FilterIdle
  /\ SearchIdle
  /\ ProgIdle

\* One call of save_results, as the log of saves keeps it.
SaveCall(results, fault) ==
  LET out == SaveResults(db, results, clock, fault) IN
  /\ db' = out.rows
  /\ clock' = clock + 1
  /\ saves' = Append(saves, [results |-> results, fault |-> fault, before |-> db,
                             after |-> out.rows, report |-> out.report,
                             raised |-> out.raised])

Save ==
  /\ Len(saves) < MaxSaves
  /\ \E fault \in SaveFaults(stIn) : SaveCall(stIn, fault)
  /\ UNCHANGED <<unitVars, filterVars, searchVars, stIn, progVars>>

\* The listings behind the links are found again at a lower price.
Reprice ==
  /\ Len(saves) < MaxSaves
  /\ stIn # <<>>
  /\ stIn[1].price = 45000
  /\ stIn' = [k \in 1..Len(stIn) |-> [stIn[k] EXCEPT !.price = @ - 5000]]
  /\ UNCHANGED <<unitVars, filterVars, searchVars, db, clock, saves, progVars>>

NextStore == Save \/ Reprice

SpecStore == InitStore /\ [][NextStore]_vars

\* The links of the sequence are present and pairwise distinct.
DistinctLinks(results) ==
  /\ \A k \in 1..Len(results) : Truthy(results[k].link)
  /\ \A k, m \in 1..Len(results) : results[k].link = results[m].link => k = m

\* C4: save is idempotent: when a sequence of Results with pairwise distinct
\* links is saved twice in a row, the second call reports inserted = 0 and
\* ignored = the length of the sequence.
C4_SaveIdempotent ==
  \A k \in 1..Len(saves) - 1 :
    LET first == saves[k]
        second == saves[k + 1]
    IN  (/\ second.results = first.results
         /\ DistinctLinks(first.results)
         /\ first.fault = NoFault /\ second.fault = NoFault
         /\ ~first.raised /\ ~second.raised) =>
          /\ second.report.inserted = 0
          /\ second.report.ignored = Len(second.results)
          /\ second.results # <<>> => second.report.logged

\* Two Results with distinct links were saved twice: the first call stored
\* both, the second reported 0 inserted and 2 ignored.
C4_Witness ==
  /\ Len(saves) = 2
  /\ saves[2].results = saves[1].results
  /\ Len(saves[1].results) = 2 /\ DistinctLinks(saves[1].results)
  /\ saves[1].report = [logged |-> TRUE, inserted |-> 2, ignored |-> 0]
  /\ saves[2].report = [logged |-> TRUE, inserted |-> 0, ignored |-> 2]

\* C6: saving a Result whose link is already stored leaves the stored row as
\* it was: platform, search_term, title, price, seller_rating and
\* found_timestamp keep their values, whatever the new Result carries.
C6_StoredRowUnchanged ==
  \A k \in 1..Len(saves) :
    \A m \in 1..Len(saves[k].results), i \in 1..Len(saves[k].before) :
      saves[k].before[i].link = saves[k].results[m].link =>
        /\ i <= Len(saves[k].after)
        /\ saves[k].after[i] = saves[k].before[i]
        /\ i <= Len(db) /\ db[i] = saves[k].before[i]

\* A stored link was saved again at another price and at a later time; the
\* save committed and the row still shows the first price and time.
C6_Witness ==
  /\ Len(saves) = 2
  /\ saves[2].fault = NoFault /\ saves[2].report.logged
  /\ Len(saves[2].before) >= 1
  /\ saves[2].before[1].link = Link1 /\ saves[2].before[1].price = 45000
  /\ saves[2].results[1].link = Link1 /\ saves[2].results[1].price = 40000
  /\ db[1].price = 45000 /\ db[1].found_timestamp = 1

\* A call of save_results within the claim C28: every dict is a Result that
\* can be stored and has a link, and the store did not fail.
PresentLinks(save) ==
  /\ save.fault = NoFault /\ ~save.raised
  /\ \A m \in 1..Len(save.results) :
       /\ Truthy(save.results[m].link)
       /\ save.results[m].platform # NoPlatform
       /\ Encodable(save.results[m])

\* The links of the sequence that no row held before the call.
NewLinks(save) == LinksOf(save.results) \ LinksOf(save.before)

\* The first result of the sequence with the link.
FirstWith(results, link) ==
  results[CHOOSE m \in 1..Len(results) :
            /\ results[m].link = link
            /\ \A j \in 1..(m - 1) : results[j].link # link]

\* C28: for a sequence of Results with present links, a link repeated in the
\* sequence or not, one call of save_results reports inserted = the number
\* of distinct links of the sequence that were not stored before and
\* ignored = the length of the sequence minus inserted; the row kept for a
\* repeated link is that of its first occurrence.
C28_CountsWithRepeats ==
  \A k \in 1..Len(saves) :
    PresentLinks(saves[k]) =>
      /\ saves[k].report.inserted = Cardinality(NewLinks(saves[k]))
      /\ saves[k].report.ignored = Len(saves[k].results) - saves[k].report.inserted
      /\ \A link \in NewLinks(saves[k]) :
           LET first == FirstWith(saves[k].results, link)
               kept  == {i \in 1..Len(saves[k].after) : saves[k].after[i].link = link}
           IN  /\ Cardinality(kept) = 1
               /\ \A i \in kept :
                    /\ saves[k].after[i].platform = first.platform
                    /\ saves[k].after[i].price = first.price
                    /\ saves[k].after[i].title = first.title

\* One sequence held the same new link twice, from eBay at 450.00 and then
\* from Amazon at 400.00: one inserted, one ignored, and the row is eBay's.
C28_Witness ==
  /\ Len(saves) >= 1 /\ PresentLinks(saves[1])
  /\ Len(saves[1].results) = 2
  /\ saves[1].results[1].link = Link1 /\ saves[1].results[2].link = Link1
  /\ saves[1].results[1].platform = "eBay" /\ saves[1].results[2].platform = "Amazon"
  /\ saves[1].report = [logged |-> TRUE, inserted |-> 1, ignored |-> 1]
  /\ Len(saves[1].after) = 1
  /\ saves[1].after[1].platform = "eBay" /\ saves[1].after[1].price = 45000

\* The results of a call whose insert failed: the row that met the
\* sqlite3.Error, and every row whose title cannot be bound.
Failing(save) ==
  {m \in 1..Len(save.results) :
     \/ save.fault.kind = "row" /\ save.fault.row = m
     \/ ~Encodable(save.results[m])}

\* The store holds a row for the link of the result.
StoredLink(rows, result) == \E i \in 1..Len(rows) : rows[i].link = result.link

\* C19: within one save call a failure to insert a single Result skips only
\* that row: every other Result of the sequence, before or after it, is
\* inserted or ignored by its link, and the call commits.
C19_RowFailureSkipsRow ==
  \A k \in 1..Len(saves) :
    LET save == saves[k] IN
    (save.fault.kind \in {"none", "row"} /\ Cardinality(Failing(save)) = 1) =>
      /\ ~save.raised /\ save.report.logged
      /\ \A m \in 1..Len(save.results) :
           (m \notin Failing(save) /\ save.results[m].platform # NoPlatform
              /\ Truthy(save.results[m].link)) =>
             StoredLink(save.after, save.results[m])

\* A Result was handed to save_results ahead of a dict whose title holds a
\* lone surrogate: the call raised and the table is still empty.
C19_Witness ==
  /\ Len(saves) >= 1
  /\ Len(saves[1].results) = 2
  /\ saves[1].results[1].title = GPU /\ saves[1].results[1].link = Link2
  /\ saves[1].results[2].title = SurrogateTitle
  /\ saves[1].fault = NoFault
  /\ saves[1].raised /\ saves[1].after = <<>>

\* C19 for the failures that are an sqlite3.Error.
C19_SqliteError ==
  \A k \in 1..Len(saves) :
    (\A m \in 1..Len(saves[k].results) : Encodable(saves[k].results[m])) =>
      LET save == saves[k] IN
      (save.fault.kind = "row") =>
        /\ ~save.raised /\ save.report.logged
        /\ \A m \in 1..Len(save.results) :
             (m # save.fault.row /\ save.results[m].platform # NoPlatform
                /\ Truthy(save.results[m].link)) =>
               StoredLink(save.after, save.results[m])

(***************************************************************************)
(* The program: main_shopper with its configuration, its input file and    *)
(* its search cycles.                                                      *)
(***************************************************************************)
\* Records in the list of an input file, cycles of one run.
MaxItems == 2
MaxCycles == 2

RECURSIVE ValidItems(_)
\* Lines 35-53 of read_input_file: a record is kept when it is a dict with
\* 'name' and a max_price that float() takes; min_seller_rating is 0 when it
\* is missing or float() refuses it.
ValidItems(data) ==
  IF data = <<>> THEN <<>>
  ELSE LET rec  == Head(data)
           rest == ValidItems(Tail(data))
       IN  IF rec.dict /\ rec.hasName /\ rec.priceKind = "number"
           THEN <<[name |-> rec.name, max_price |-> rec.max_price,
                   min_seller_rating |->
                     IF rec.ratingKind = "number" THEN rec.min_seller_rating ELSE 0]>>
                \o rest
           ELSE rest

\* float() of an int beyond the float range raises OverflowError, which the
\* except (ValueError, TypeError) of lines 41 and 47 does not catch.
Overflows(rec) ==
  /\ rec.dict /\ rec.hasName /\ rec.priceKind # "missing"
  /\ \/ rec.priceKind = "huge"
     \/ rec.priceKind = "number" /\ rec.ratingKind = "huge"

\* read_input_file: [] for a file that is missing, blank, no JSON, no list
\* or unreadable, and when an exception leaves the loop (line 57).
ReadInputFile(file) ==
  IF file.kind # "list" THEN <<>>
  ELSE IF \E i \in 1..Len(file.records) : Overflows(file.records[i]) THEN <<>>
  ELSE ValidItems(file.records)

\* get_enabled_platforms.
GetEnabledPlatforms(config) == IF config.broken THEN <<>> ELSE config.enabled

\* What import_module, getattr, issubclass and the constructor meet for a
\* configured name.  The package holds the four adapters; "hollow", "legacy"
\* and "draft" stand for modules added to it: one without the class, one
\* whose class does not inherit BasePlatform, one whose class leaves search
\* abstract.  Every other name has no module.
ModuleStatus(name) ==
  CASE name \in PlatformNames -> "conforming"
    [] name = "hollow" -> "noclass"
    [] name = "legacy" -> "notsubclass"
    [] name = "draft"  -> "abstract"
    [] OTHER -> "absent"

\* One turn of the for loop of load_platform_modules: TRUE when the name gets
\* its instance, FALSE for each way of skipping it.
LoadOne(name) ==
  LET status == ModuleStatus(name) IN
  IF status = "absent" THEN FALSE             \* import_module: ImportError
  ELSE IF status = "noclass" THEN FALSE       \* getattr: AttributeError
  ELSE IF status = "notsubclass" THEN FALSE   \* issubclass is False
  ELSE IF status = "abstract" THEN FALSE      \* platform_class(): TypeError
  ELSE TRUE

RECURSIVE LoadLoopAbort(_, _)
\* A plausible slip: the first name that fails ends the loading.
LoadLoopAbort(names, platforms) ==
  IF names = <<>> THEN platforms
  ELSE IF ~LoadOne(Head(names)) THEN platforms
  ELSE LoadLoopAbort(Tail(names),
                     IF ~InSeq(Head(names), platforms)
                     THEN Append(platforms, Head(names)) ELSE platforms)

RECURSIVE LoadLoop(_, _)
\* The for loop of load_platform_modules: platforms is the dict in insertion
\* order; a name met twice keeps its first place.
LoadLoop(names, platforms) ==
  IF names = <<>> THEN platforms
  ELSE LoadLoop(Tail(names),
                IF LoadOne(Head(names)) /\ ~InSeq(Head(names), platforms)
                THEN Append(platforms, Head(names)) ELSE platforms)

LoadPlatformModules(config) == LoadLoop(GetEnabledPlatforms(config), <<>>)

\* A plausible slip: a failing init_db does not stop the start.
ExitCodeIgnoresStore(broken, init_db_ok, platforms) ==
  IF broken \/ platforms = <<>> THEN 1 ELSE None

\* The three sys.exit(1) of __main__; None when the scheduler is started.
ExitCode(broken, init_db_ok, platforms) ==
  IF broken THEN 1
  ELSE IF ~init_db_ok THEN 1
  ELSE IF platforms = <<>> THEN 1
  ELSE None

\* A plausible slip: the cycle goes on without items.
AfterReadGoesOn(items) == "searching"

\* Lines 85-87 of run_search_cycle: no valid item ends the cycle early.
AfterRead(items) == IF items = <<>> THEN "idle" ELSE "searching"

Rec(name, priceKind, ratingKind) ==
  [dict |-> TRUE, hasName |-> TRUE, name |-> name, priceKind |-> priceKind,
   max_price |-> 50000, ratingKind |-> ratingKind, min_seller_rating |-> 9500]

RecordsAll ==
  {[dict |-> d, hasName |-> h, name |-> n, priceKind |-> pk, max_price |-> 50000,
    ratingKind |-> rk, min_seller_rating |-> 9500] :
     d \in BOOLEAN, h \in BOOLEAN, n \in {"RTX 3080", NumberName},
     pk \in {"number", "text", "missing", "huge"},
     rk \in {"number", "text", "missing", "huge"}}

RecordCore ==
  {Rec("RTX 3080", "number", "number"),
   Rec(NumberName, "number", "missing"),
   Rec("RTX 3080", "text", "number")}

InputFiles ==
  {[kind |-> k, records |-> <<>>] : k \in {"missing", "empty", "invalid", "nonlist"}}
  \cup {[kind |-> "list", records |-> <<r>>] : r \in RecordsAll}
  \cup {[kind |-> "list", records |-> rs] : rs \in SeqsUpTo(RecordCore, MaxItems)}

\* The input files the cycles meet: the files that are no list, and the
\* lists of the records of RecordCore.
CycleFiles ==
  {f \in InputFiles : \A k \in 1..Len(f.records) : f.records[k] \in RecordCore}

Configs ==
  {[broken |-> TRUE, enabled |-> <<>>, delay |-> 200, timeout |-> 1000],
   [broken |-> FALSE, enabled |-> <<>>, delay |-> 200, timeout |-> 1000],
   [broken |-> FALSE, enabled |-> <<"ebay">>, delay |-> 200, timeout |-> 1000],
   [broken |-> FALSE, enabled |-> <<"ebay">>, delay |-> 200, timeout |-> 0],
   [broken |-> FALSE, enabled |-> <<"ebay", "amazon">>, delay |-> 200, timeout |-> 1000],
   [broken |-> FALSE, enabled |-> <<"nosuch", "walmart", "bestbuy", "walmart">>,
    delay |-> 200, timeout |-> 1000],
   [broken |-> FALSE, enabled |-> <<"amazon", "ebay">>, delay |-> 0 - 100,
    timeout |-> 1000]}

\* BasePlatform.__init__: every adapter reads the two settings of the file.
CfgConf(config) == [delay |-> config.delay, timeout |-> config.timeout]

\* What a GET of a cycle meets: the platform's page with one good listing,
\* no answer, or (Best Buy) a page whose structured data names a product
\* with a lone surrogate in its title.
CycleNets(name) ==
  {OkNet(GoodPage(name)),
   [fail |-> "network", status |-> 200, urlError |-> FALSE, page |-> NoPage]}
  \cup IF name = "bestbuy" THEN {OkNet(SurrogatePage)} ELSE {}

\* The searches a cycle can make: every loadable adapter, every item an
\* input file can hold, the settings of every configuration, every answer.
CycleCalls ==
  UNION {{[name |-> n, item |-> it, conf |-> CfgConf(c), net |-> nt] :
            it \in UNION {{ReadInputFile(f)[k] : k \in 1..Len(ReadInputFile(f))} :
                            f \in CycleFiles},
            c \in Configs, nt \in CycleNets(n)} :
           n \in PlatformNames}

\* platform_obj.search(item) over the searches of a cycle, worked out once
\* (@@ makes the function an explicit table).
SearchOutcomes == [c \in CycleCalls |-> Search(c.name, c.item, c.conf, c.net)] @@ <<>>
CycleSearch(name, item, conf, net) ==
  SearchOutcomes[[name |-> name, item |-> item, conf |-> conf, net |-> net]]

\* What a save of a cycle meets.
CycleFaults == {NoFault, [kind |-> "connect", row |-> 0], [kind |-> "commit", row |-> 0]}

NoSave ==
  [results |-> <<>>, fault |-> NoFault, before |-> <<>>, after |-> <<>>,
   report |-> NoReport, raised |-> FALSE]
\* calls are the searches that have returned or raised, active the searches
\* entered and not yet left, trace the steps of the cycle in their order.
NoCycle ==
  [kind |-> "none", calls |-> <<>>, saved |-> FALSE, save |-> NoSave,
   active |-> <<>>, trace |-> <<>>]

\* A plausible slip: one session made at class level serves every adapter.
SharedSession(name) == "session"

\* BasePlatform.__init__ line 20: each instance makes its own
\* requests.Session(), and the registry holds one instance per name.
SessionOf(name) == <<"session", name>>

\* A plausible slip: save_results stands inside the item loop.
MorePairsFirstItem(calls, items, platforms) == Len(calls) < Len(platforms)

\* The two for loops of lines 91 and 98 have a pair left to search.
MorePairs(calls, items, platforms) == Len(calls) < Len(items) * Len(platforms)

\* Before __main__ has run.
NoStartup == [config |-> FALSE, init_db |-> "skipped", exit |-> None]

Init ==
  /\ UnitIdle
  /\ pc = "boot"
  /\ cfg \in Configs
  /\ platform_instances = <<>>
  /\ cycle = 0
  /\ items_to_search = <<>>
  /\ all_results = <<>>
  /\ cyc = NoCycle
  /\ startup = NoStartup
  /\ db = <<>> /\ clock = 1 /\ saves = <<>> /\ stIn = <<>>
  /\ FilterIdle
  /\ SearchIdle

\* Lines 124-142 of __main__: the configuration, init_db, the adapters; each
\* failure exits with code 1 (init_db is not called without a configuration).
\* The scheduler then runs the cycles one after the other.
Main ==
  /\ pc = "boot"
  /\ \E init_db_ok \in BOOLEAN :
       LET platforms == LoadPlatformModules(cfg)
           code == ExitCode(cfg.broken, init_db_ok, platforms)
       IN  /\ startup' = [config   |-> ~cfg.broken,
                          init_db  |-> IF cfg.broken THEN "skipped"
                                       ELSE IF init_db_ok THEN "ok" ELSE "raised",
                          exit     |-> code]
           /\ IF code # None
              THEN pc' = "exit" /\ UNCHANGED platform_instances
              ELSE pc' = "idle" /\ platform_instances' = platforms
  /\ UNCHANGED <<unitVars, filterVars, searchVars, storeVars, cfg, cycle, items_to_search,
                 all_results, cyc>>

\* run_search_cycle up to its loops: lines 73-90.
StartCycle ==
  /\ pc = "idle"
  /\ cycle < MaxCycles
  /\ cycle' = cycle + 1
  /\ all_results' = <<>>
  /\ IF platform_instances = <<>>
     THEN /\ pc' = "idle"
          /\ items_to_search' = <<>>
          /\ cyc' = NoCycle
     ELSE \E file \in CycleFiles :
            LET items == ReadInputFile(file) IN
            /\ items_to_search' = items
            /\ pc' = AfterRead(items)
            /\ cyc' = [NoCycle EXCEPT !.kind = file.kind, !.trace = <<"read">>]
  /\ UNCHANGED <<unitVars, startup, filterVars, searchVars, storeVars, cfg, platform_instances>>

\* One turn of the inner loop of run_search_cycle, lines 98-100: the call of
\* platform_obj.search(item).  The loop stands still until the call is left.
SearchCall ==
  /\ pc = "searching"
  /\ cyc.active = <<>>
  /\ MorePairs(cyc.calls, items_to_search, platform_instances)
  /\ LET n    == Len(cyc.calls)
         i    == (n \div Len(platform_instances)) + 1
         name == platform_instances[(n % Len(platform_instances)) + 1]
     IN  \E net \in CycleNets(name) :
           cyc' = [cyc EXCEPT !.active = Append(@, [item |-> i, platform |-> name,
                                                    session |-> SessionOf(name),
                                                    net |-> net]),
                              !.trace = Append(@, "call")]
  /\ UNCHANGED <<unitVars, startup, filterVars, searchVars, storeVars, pc, cfg, platform_instances,
                 cycle, items_to_search, all_results>>

\* The call returns or raises, once its session.get has returned or raised
\* (if it was reached at all): lines 100-108.
SearchReturn ==
  /\ pc = "searching"
  /\ cyc.active # <<>>
  /\ \E call \in {Head(cyc.active)} :
       /\ SessionGet(CfgConf(cfg), call.net) \in GetOutcomes
       /\ \E out \in {CycleSearch(call.platform, items_to_search[call.item],
                                   CfgConf(cfg), call.net)} :
            /\ all_results' = CallPlatform(all_results, out)
            /\ cyc' = [cyc EXCEPT !.calls =
                         Append(@, [item |-> call.item, platform |-> call.platform,
                                    session |-> call.session,
                                    raised |-> out.raised, results |-> out.results,
                                    events |-> out.events]),
                                  !.active = Tail(@),
                                  !.trace = Append(@, "return")]
  /\ UNCHANGED <<unitVars, startup, filterVars, searchVars, storeVars, pc, cfg, platform_instances,
                 cycle, items_to_search>>

\* The end of run_search_cycle: line 117.
Persist ==
  /\ pc = "searching"
  /\ cyc.active = <<>>
  /\ ~MorePairs(cyc.calls, items_to_search, platform_instances)
  /\ \E fault \in CycleFaults :
       LET out == SaveResults(db, all_results, clock, fault) IN
       /\ db' = out.rows
       /\ cyc' = [cyc EXCEPT !.saved = TRUE,
                             !.trace = Append(@, "save"),
                             !.save = [results |-> all_results, fault |-> fault,
                                       before |-> db, after |-> out.rows,
                                       report |-> out.report,
                                       raised |-> out.raised]]
  /\ clock' = clock + 1
  /\ pc' = "idle"
  /\ UNCHANGED <<unitVars, startup, filterVars, searchVars, saves, stIn, cfg,
                 platform_instances, cycle, items_to_search, all_results>>

Next == Main \/ StartCycle \/ SearchCall \/ SearchReturn \/ Persist

Spec == Init /\ [][Next]_vars

\* A cycle has read its input and has not been followed by another yet.
CycleRan == cyc.kind # "none"

\* C5: after any number of cycles and saves the table holds at most one row
\* per link; a link found again in a later cycle is counted as ignored by
\* that cycle's save.
C5_OneRowPerLink ==
  /\ \A a, b \in 1..Len(db) : db[a].link = db[b].link => a = b
  /\ (cyc.saved /\ cyc.save.fault = NoFault /\ ~cyc.save.raised) =>
       LET again == {k \in 1..Len(cyc.save.results) :
                       /\ Truthy(cyc.save.results[k].link)
                       /\ cyc.save.results[k].link \in LinksOf(cyc.save.before)}
       IN  /\ again # {} => cyc.save.report.logged
           /\ cyc.save.report.ignored >= Cardinality(again)
           /\ \A k \in again :
                Cardinality({a \in 1..Len(db) : db[a].link = cyc.save.results[k].link}) = 1

\* The second cycle found the link the first cycle stored: one row holds it,
\* with the time of the first cycle, and the second save counted it ignored.
C5_Witness ==
  /\ cycle = 2 /\ cyc.saved /\ cyc.save.fault = NoFault
  /\ Len(cyc.save.before) = 1 /\ cyc.save.before[1].link = Link1
  /\ \E k \in 1..Len(cyc.save.results) : cyc.save.results[k].link = Link1
  /\ cyc.save.report.ignored >= 1
  /\ Cardinality({a \in 1..Len(db) : db[a].link = Link1}) = 1
  /\ db[1].found_timestamp = 1

RECURSIVE Gathered(_)
\* The results of the calls that returned, in the order of the calls.
Gathered(calls) ==
  IF calls = <<>> THEN <<>>
  ELSE Gathered(SubSeq(calls, 1, Len(calls) - 1)) \o calls[Len(calls)].results

\* C7: an adapter that raises does not stop the cycle: every loaded adapter
\* is called for every item, in order, whatever the earlier calls did, and
\* the aggregate handed to save_results holds the results of all the calls
\* that returned.
C7_CycleSurvivesRaise ==
  CycleRan =>
    /\ \A k \in 1..Len(cyc.calls) :
         /\ cyc.calls[k].item = ((k - 1) \div Len(platform_instances)) + 1
         /\ cyc.calls[k].platform =
              platform_instances[((k - 1) % Len(platform_instances)) + 1]
    /\ all_results = Gathered(cyc.calls)
    /\ cyc.saved =>
         /\ Len(cyc.calls) = Len(items_to_search) * Len(platform_instances)
         /\ cyc.save.results = Gathered(cyc.calls)

\* Both adapters raised for the first item; both were called for the second
\* item, and what they found was handed to save_results and stored.
C7_Witness ==
  /\ cyc.saved /\ Len(cyc.calls) = 4
  /\ cyc.calls[1].raised /\ cyc.calls[2].raised
  /\ ~cyc.calls[3].raised /\ cyc.calls[3].results # <<>>
  /\ ~cyc.calls[4].raised /\ cyc.calls[4].results # <<>>
  /\ cyc.save.results = cyc.calls[3].results \o cyc.calls[4].results
  /\ Len(db) = 2

\* C8: when read_input_file yields no valid item the cycle ends early: no
\* adapter is called, no result is produced and save_results is not called.
C8_NoItemsEndsCycle ==
  (CycleRan /\ items_to_search = <<>>) =>
    /\ pc = "idle"
    /\ cyc.calls = <<>>
    /\ all_results = <<>>
    /\ ~cyc.saved

\* The second cycle met a file that is no JSON and ended at once; the row of
\* the first cycle is all the table holds.
C8_Witness ==
  /\ cycle = 2 /\ cyc.kind = "invalid" /\ items_to_search = <<>>
  /\ pc = "idle" /\ ~cyc.saved
  /\ Len(db) = 1

\* C16: no error of a cycle unwinds past run_search_cycle: whatever the item
\* loading, the adapter searches and save_results met, a failure of the
\* store during the save included, the function returns normally.
C16_CycleReturnsNormally ==
  cyc.saved => ~cyc.save.raised

\* Best Buy returned a product whose title holds a lone surrogate; the save
\* of the cycle raised out of run_search_cycle and stored nothing.
C16_Witness ==
  /\ cyc.saved /\ cyc.save.raised
  /\ cyc.save.fault = NoFault
  /\ \E k \in 1..Len(cyc.save.results) : cyc.save.results[k].title = SurrogateTitle
  /\ cyc.save.after = cyc.save.before

\* C16 for the cycles whose results can all be bound: an adapter that raised
\* and a connect or commit that failed leave the cycle to end normally.
C16_Encodable ==
  (cyc.saved /\ \A k \in 1..Len(cyc.save.results) : Encodable(cyc.save.results[k])) =>
     ~cyc.save.raised /\ pc = "idle"

\* Something of a cycle has happened: run_search_cycle was entered, an
\* adapter was called, save_results was called or a row was stored.
CycleActivity ==
  \/ cycle > 0
  \/ pc = "searching"
  \/ cyc # NoCycle
  \/ all_results # <<>>
  \/ db # <<>>

\* C15: no cycle runs unless startup succeeded.  Once __main__ has run, a
\* configuration that failed to load, an init_db that raised or an empty set
\* of adapters means exit code 1 with the scheduler never started: no cycle,
\* no adapter search, no save; and every cycle activity has a loaded
\* configuration, an initialized store and at least one adapter behind it.
C15_NoCycleWithoutStartup ==
  /\ (pc # "boot" /\ (cfg.broken \/ startup.init_db = "raised"
                        \/ LoadPlatformModules(cfg) = <<>>)) =>
       /\ pc = "exit" /\ startup.exit = 1
       /\ ~CycleActivity
  /\ CycleActivity =>
       /\ startup.config /\ startup.init_db = "ok" /\ platform_instances # <<>>
       /\ startup.exit = None

\* init_db raised with a good configuration and two adapters enabled: the
\* process has exited with code 1 and nothing has run.
C15_Witness ==
  /\ pc = "exit" /\ startup.exit = 1
  /\ startup.config /\ startup.init_db = "raised"
  /\ LoadPlatformModules(cfg) = <<"ebay", "amazon">>
  /\ ~CycleActivity

\* The number of steps of the kind among the first n of the cycle's trace.
Steps(kind, n) == Cardinality({k \in 1..n : cyc.trace[k] = kind})

\* The pairs of a cycle: every item with every loaded adapter.
Pairs == Len(items_to_search) * Len(platform_instances)

\* C22: the phases of a cycle come in the order loading, searching,
\* persisting: the items are read before the first search, save_results is
\* called at most once in a cycle, and only after the search of every
\* (item, adapter) pair of the cycle has returned or raised.
C22_PhaseOrder ==
  CycleRan =>
    /\ cyc.trace[1] = "read" /\ Steps("read", Len(cyc.trace)) = 1
    /\ Steps("save", Len(cyc.trace)) <= 1
    /\ cyc.saved <=> Steps("save", Len(cyc.trace)) = 1
    /\ \A k \in 1..Len(cyc.trace) :
         cyc.trace[k] = "save" =>
           /\ k = Len(cyc.trace)
           /\ Steps("call", k) = Pairs /\ Steps("return", k) = Pairs

\* Two items on two adapters: the read, four searches each left before the
\* next is entered, then the one save.
C22_Witness ==
  /\ cyc.saved /\ pc = "idle"
  /\ cyc.trace = <<"read", "call", "return", "call", "return", "call", "return",
                   "call", "return", "save">>

\* The calls of the cycle for item i on the adapter named name.
CallsOf(i, name) ==
  {k \in 1..Len(cyc.calls) : cyc.calls[k].item = i /\ cyc.calls[k].platform = name}

RECURSIVE InPairOrder(_)
\* What the searches of the first n pairs returned, the pairs taken in item
\* order and within an item in the order of the registry.
InPairOrder(n) ==
  IF n = 0 THEN <<>>
  ELSE LET i    == ((n - 1) \div Len(platform_instances)) + 1
           name == platform_instances[((n - 1) % Len(platform_instances)) + 1]
           k    == CHOOSE c \in CallsOf(i, name) : TRUE
       IN  InPairOrder(n - 1) \o (IF cyc.calls[k].raised THEN <<>> ELSE cyc.calls[k].results)

\* C23: in a cycle search is called exactly once for each (item, adapter)
\* pair, and what save_results is handed is the concatenation, by item and
\* within an item by adapter, of what the searches that did not raise
\* returned: nothing dropped, nothing twice, nothing out of order.
C23_OncePerPair ==
  (CycleRan /\ cyc.saved) =>
    /\ \A i \in 1..Len(items_to_search), p \in 1..Len(platform_instances) :
         Cardinality(CallsOf(i, platform_instances[p])) = 1
    /\ Len(cyc.calls) = Pairs
    /\ cyc.save.results = InPairOrder(Pairs)

\* Two items on eBay and Amazon, every search found its listing: the save
\* was handed the four results in the order of the pairs.
C23_Witness ==
  /\ cyc.saved /\ Len(cyc.calls) = 4
  /\ platform_instances = <<"ebay", "amazon">>
  /\ Len(cyc.save.results) = 4
  /\ cyc.save.results[1] = cyc.calls[1].results[1]
  /\ cyc.save.results[4] = cyc.calls[4].results[1]
  /\ cyc.save.results[1].platform = "eBay" /\ cyc.save.results[2].platform = "Amazon"
  /\ cyc.save.results[3].platform = "eBay" /\ cyc.save.results[4].platform = "Amazon"

\* The searches of the cycle, those left and the one entered.
Entered == cyc.calls \o cyc.active

\* C26: execution is sequential: at most one search, and so at most one
\* fetch, is in progress at any moment, the search of a pair is entered only
\* after the search before it has been left, and two adapters never use the
\* same HTTP session.
C26_Sequential ==
  /\ Len(cyc.active) <= 1
  /\ \A k \in 1..Len(cyc.trace) :
       cyc.trace[k] = "call" => (k > 1 /\ cyc.trace[k - 1] \in {"read", "return"})
  /\ Steps("call", Len(cyc.trace)) - Steps("return", Len(cyc.trace)) = Len(cyc.active)
  /\ \A a, b \in 1..Len(Entered) :
       /\ Entered[a].platform # Entered[b].platform => Entered[a].session # Entered[b].session
       /\ Entered[a].platform = Entered[b].platform => Entered[a].session = Entered[b].session
  /\ \A k \in 1..Len(cyc.calls) :
       Cardinality({e \in 1..Len(cyc.calls[k].events) : cyc.calls[k].events[e].op = "get"}) <= 1

\* The search on the second adapter is in progress; the search on the first
\* adapter, on another session, has returned.
C26_Witness ==
  /\ Len(cyc.calls) = 1 /\ Len(cyc.active) = 1
  /\ cyc.calls[1].platform # cyc.active[1].platform
  /\ cyc.calls[1].session # cyc.active[1].session
  /\ cyc.trace = <<"read", "call", "return", "call">>

\* The cycle again, with the steps of run_search_cycle taken as long as they
\* can be: a search that was entered is left, the next pair is searched, the
\* save follows the loops.  Nothing is required of the scheduler.
SpecLive ==
  /\ Init /\ [][Next]_vars
  /\ WF_vars(SearchCall) /\ WF_vars(SearchReturn) /\ WF_vars(Persist)

\* C27: every started cycle ends and the program is idle again, early after
\* the loading or after the save, whatever the fetches do (answer, time out
\* or fail); nothing inside the cycle ends it before that.
C27_CycleFinishes ==
  /\ (pc = "searching") ~> (pc = "idle")
  /\ [](CycleRan /\ pc = "idle" => (items_to_search = <<>> \/ cyc.saved))
  /\ [](CycleRan /\ pc = "idle" /\ cyc.saved =>
          Len(cyc.calls) = Pairs /\ cyc.active = <<>>)

\* The second cycle has ended after its save; one of its searches issued
\* its request and had no answer to parse.
C27_Witness ==
  /\ cycle = 2 /\ pc = "idle" /\ cyc.saved
  /\ \E k \in 1..Len(cyc.calls) :
       /\ ~cyc.calls[k].raised /\ cyc.calls[k].results = <<>>
       /\ \E e \in 1..Len(cyc.calls[k].events) : cyc.calls[k].events[e].op = "get"
       /\ \A e \in 1..Len(cyc.calls[k].events) : cyc.calls[k].events[e].op # "parse"

(***************************************************************************)
(* _clean_price on its own, over every short text of price characters.     *)
(***************************************************************************)
\* Longest price text.
MaxPriceLen == 3

\* A currency mark, digits, the decimal point, a thousands separator, a blank.
PriceChars == {"$", "0", "5", ".", ",", " "}

\* Floats are hundredths: the texts carry at most two digits behind the point.
TwoDecimals(s) ==
  LET kept == SelectSeq(s, IsPriceChar)
      dots == {i \in 1..Len(kept) : kept[i] = "."}
  IN  IF dots = {} THEN TRUE ELSE Len(kept) - Min(dots) <= 2

InitPrice ==
  /\ \E s \in SeqsUpTo(PriceChars, MaxPriceLen) \cup {Absent} :
       /\ TwoDecimals(s)
       /\ arg = [op |-> "clean_price", price_str |-> s]
  /\ ret = NoReturn
  /\ FilterIdle /\ SearchIdle /\ StoreIdle /\ ProgIdle

CallCleanPrice ==
  /\ arg.op = "clean_price" /\ ~ret.done
  /\ ret' = [done |-> TRUE, value |-> CleanPrice(arg.price_str)]
  /\ UNCHANGED <<filterVars, searchVars, storeVars, progVars, arg>>

NextPrice == CallCleanPrice

SpecPrice == InitPrice /\ [][NextPrice]_vars

\* The digits and decimal points of a text, and the number they spell.
Remainder(s) == IF s = Absent THEN <<>> ELSE SelectSeq(s, IsPriceChar)

\* C12: clean_price returns the number spelled by the digits and the decimal
\* point of its input when that number is a positive float, and absent when
\* the input is absent or has no digit, when nothing remains, and when the
\* remainder is no positive float (two decimal points, a value of zero).
C12_CleanPrice ==
  ret.done =>
    LET value == ParseFloat(Remainder(arg.price_str))
    IN  ret.value = IF value > 0 THEN value ELSE None

\* "$0" was cleaned to the float 0.0.
C12_Witness ==
  ret.done /\ arg.price_str = <<"$", "0">> /\ ret.value = 0

\* C12 for every text whose number is not zero.
C12_ExceptZero ==
  (ret.done /\ ParseFloat(Remainder(arg.price_str)) # 0) => C12_CleanPrice

(***************************************************************************)
(* load_platform_modules on its own, over every short list of names.       *)
(***************************************************************************)
\* Longest enabled_platforms list.
MaxEnabled == 3

LoadNames == {"ebay", "walmart", "nosuch", "hollow", "legacy", "draft"}

InitLoad ==
  /\ \E names \in SeqsUpTo(LoadNames, MaxEnabled) :
       arg = [op |-> "load", enabled |-> names]
  /\ ret = NoReturn
  /\ FilterIdle /\ SearchIdle /\ StoreIdle /\ ProgIdle

CallLoad ==
  /\ arg.op = "load" /\ ~ret.done
  /\ ret' = [done |-> TRUE, platforms |-> LoadLoop(arg.enabled, <<>>)]
  /\ UNCHANGED <<filterVars, searchVars, storeVars, progVars, arg>>

NextLoad == CallLoad

SpecLoad == InitLoad /\ [][NextLoad]_vars

\* C14: load_platform_modules skips a configured name that has no adapter or
\* whose adapter fails conformance and loads every other configured name:
\* the mapping returned holds, once each, exactly the configured names that
\* resolve and conform, wherever they stand in the list.
C14_LoadsExactlyConforming ==
  ret.done =>
    /\ \A name \in LoadNames :
         InSeq(name, ret.platforms) <=>
           (InSeq(name, arg.enabled) /\ ModuleStatus(name) = "conforming")
    /\ \A i, j \in 1..Len(ret.platforms) :
         ret.platforms[i] = ret.platforms[j] => i = j

\* eBay was loaded from between a name without module and a class that does
\* not inherit BasePlatform.
C14_Witness ==
  /\ ret.done
  /\ arg.enabled = <<"nosuch", "ebay", "legacy">>
  /\ ret.platforms = <<"ebay">>

(***************************************************************************)
(* _make_request on its own: one adapter's calls, one after the other.     *)
(***************************************************************************)
\* Calls of _make_request by one adapter instance.
MaxFetches == 2

\* What a GET meets: no answer, or an answer with its status code.
FetchNets ==
  {[fail |-> f, status |-> st, urlError |-> FALSE, page |-> NoPage] :
     f \in {"none", "network"}, st \in {200, 204, 304, 404, 503}}

InitFetch ==
  /\ \E conf \in Confs : arg = [op |-> "fetch", conf |-> conf]
  /\ ret = [calls |-> <<>>]
  /\ FilterIdle /\ SearchIdle /\ StoreIdle /\ ProgIdle

CallFetch ==
  /\ arg.op = "fetch" /\ Len(ret.calls) < MaxFetches
  /\ \E net \in FetchNets :
       LET response == MakeRequest(arg.conf, net) IN
       ret' = [calls |-> Append(ret.calls,
                 [net |-> net, raised |-> response.raised, ok |-> response.ok,
                  events |-> response.events])]
  /\ UNCHANGED <<filterVars, searchVars, storeVars, progVars, arg>>

NextFetch == CallFetch

SpecFetch == InitFetch /\ [][NextFetch]_vars

\* C17: _make_request never raises to its caller: for every configured delay
\* and timeout it returns, and it returns a response only for a request that
\* was answered with a 2xx status; a network error, any other status and any
\* other failure give the absent response.
C17_FetchNeverRaises ==
  \A k \in 1..Len(ret.calls) :
    LET call == ret.calls[k] IN
    /\ ~call.raised
    /\ call.ok => /\ call.net.fail = "none"
                  /\ call.net.status >= 200 /\ call.net.status <= 299

\* With a delay of -1 second the call raised although the site would have
\* answered 200.
C17_Witness ==
  /\ arg.conf.delay < 0
  /\ Len(ret.calls) >= 1
  /\ ret.calls[1].raised
  /\ ret.calls[1].net.fail = "none" /\ ret.calls[1].net.status = 200

\* C17 for the delays that are not negative and the statuses outside 3xx.
C17_Except ==
  \A k \in 1..Len(ret.calls) :
    LET call == ret.calls[k] IN
    /\ arg.conf.delay >= 0 => ~call.raised
    /\ (call.net.status < 300 \/ call.net.status >= 400) =>
         (call.ok => call.net.fail = "none" /\ call.net.status >= 200)
    /\ (call.net.fail # "none" \/ call.net.status >= 400 \/ arg.conf.timeout <= 0) =>
         ~call.ok

\* C18: every call of _make_request waits the configured delay and then
\* issues exactly one request: the sleep precedes the GET on every call, the
\* first included, and a failed request is not tried again.
C18_DelayThenOneRequest ==
  \A k \in 1..Len(ret.calls) :
    ret.calls[k].events =
      <<[op |-> "sleep", seconds |-> arg.conf.delay],
        [op |-> "get", timeout |-> arg.conf.timeout]>>

\* With a delay of -1 second two calls were made and no request was issued.
C18_Witness ==
  /\ arg.conf.delay < 0
  /\ Len(ret.calls) = 2
  /\ ret.calls[1].events = <<>> /\ ret.calls[2].events = <<>>

\* C18 for the delays that are not negative.
C18_NonNegativeDelay == arg.conf.delay >= 0 => C18_DelayThenOneRequest

(***************************************************************************)
(* read_input_file on its own, over every short list of records.           *)
(***************************************************************************)
\* Records of an input file: complete ones, one without min_seller_rating,
\* and one for each way of being invalid.
InputRecords ==
  {Rec("RTX 3080", "number", "number"),
   Rec("RX 6800", "number", "missing"),
   Rec("RTX 3080", "text", "number"),
   Rec("RTX 3080", "missing", "number"),
   Rec("RX 6800", "number", "text"),
   Rec("RTX 3080", "huge", "number"),
   [Rec("RTX 3080", "number", "number") EXCEPT !.hasName = FALSE],
   [Rec("RTX 3080", "number", "number") EXCEPT !.dict = FALSE]}

InitInput ==
  /\ \E file \in InputFiles \cup
                   {[kind |-> "list", records |-> rs] :
                      rs \in SeqsUpTo(InputRecords, MaxItems)} :
       arg = [op |-> "read", file |-> file]
  /\ ret = NoReturn
  /\ FilterIdle /\ SearchIdle /\ StoreIdle /\ ProgIdle

CallReadInputFile ==
  /\ arg.op = "read" /\ ~ret.done
  /\ ret' = [done |-> TRUE, items |-> ReadInputFile(arg.file)]
  /\ UNCHANGED <<filterVars, searchVars, storeVars, progVars, arg>>

NextInput == CallReadInputFile

SpecInput == InitInput /\ [][NextInput]_vars

\* A field of a record that float() takes.
Coerces(kind) == kind = "number"

\* The records the reading is to keep: a dict with name and max_price whose
\* max_price and min_seller_rating, when given, are numbers.
Acceptable(rec) ==
  /\ rec.dict /\ rec.hasName /\ rec.priceKind # "missing"
  /\ Coerces(rec.priceKind)
  /\ rec.ratingKind = "missing" \/ Coerces(rec.ratingKind)

RECURSIVE ItemsOf(_)
ItemsOf(records) ==
  IF records = <<>> THEN <<>>
  ELSE <<[name |-> Head(records).name, max_price |-> Head(records).max_price,
          min_seller_rating |-> IF Head(records).ratingKind = "missing" THEN 0
                                ELSE Head(records).min_seller_rating]>>
       \o ItemsOf(Tail(records))

\* C20: read_input_file drops, one by one, every record that lacks name or
\* max_price or whose max_price or min_seller_rating is no number, keeps
\* every other record of the file in file order, and gives a record without
\* min_seller_rating the value 0.
C20_ReadDropsInvalid ==
  (ret.done /\ arg.file.kind = "list") =>
    ret.items = ItemsOf(SelectSeq(arg.file.records, Acceptable))

\* A record whose min_seller_rating is a text float() refuses was kept, with
\* the rating 0.
C20_Witness ==
  /\ ret.done /\ arg.file.kind = "list"
  /\ arg.file.records = <<Rec("RX 6800", "number", "text")>>
  /\ ret.items = <<[name |-> "RX 6800", max_price |-> 50000, min_seller_rating |-> 0]>>

\* C20 for the files without a min_seller_rating that is no number and
\* without a number beyond the float range.
C20_ExceptRating ==
  (\A i \in 1..Len(arg.file.records) :
     /\ arg.file.records[i].priceKind # "huge"
     /\ arg.file.records[i].ratingKind \in {"number", "missing"}) =>
    C20_ReadDropsInvalid

====
